
---- MODULE Spec2Model ----
(***************************************************************************)
(* A model of src/core/enumerable.js: the Enumerable / Enumerator          *)
(* protocol, the deferred combinators, the terminal operators and the      *)
(* OrderedEnumerable / EnumerableSorter sort subsystem.                    *)
(*                                                                         *)
(* An Enumerable is a record describing the closure the JavaScript code    *)
(* builds (its operator and the variables captured outside the factory).   *)
(* An Enumerator is a record holding the variables the factory declares    *)
(* (current, index, enumerator, map, ...).  Every enumerator record also   *)
(* carries two counters, calls and disposed, that count the invocations of *)
(* its moveNext and of its dispose: they are what a counting wrapper       *)
(* around the enumerator would observe.                                    *)
(***************************************************************************)
EXTENDS Integers, Sequences, FiniteSets, TLC

VARIABLES
    E,          \* the Enumerable under test
    en,         \* en[i]: the i-th enumerator obtained from E (Null before getEnumerator)
    out,        \* out[i]: the elements en[i] has yielded (getCurrent after a true moveNext)
    exhausted,  \* exhausted[i]: some moveNext of en[i] has returned false
    revived,    \* revived[i]: a moveNext of en[i] returned true after one returned false
    last,       \* the latest call made by the client and its outcome
    ncalls,     \* ncalls[i]: number of moveNext/dispose calls made on en[i]
    res,        \* the outcome of the latest terminal operator call
    arr,        \* the backing array of the mutable source (reverse)
    rev         \* the Enumerable returned by reverse(), or Null

vars == <<E, en, out, exhausted, revived, last, ncalls, res, arr, rev>>

----------------------------------------------------------------------------
(* Bounds *)
MaxLen == 2         \* longest backing array of a source
MaxVal == 2         \* elements are 0..MaxVal
MaxCalls == 5       \* calls made on one enumerator
MaxSortLen == 3     \* longest array handed to the sorter
MaxSortSteps == 64  \* calls of compareKeys after which a sort is abandoned

Values == 0 .. MaxVal
Arrays(n) == UNION {[1 .. k -> Values] : k \in 0 .. n}

\* JavaScript's undefined (the value of a declared, unassigned var) and null
undefined == -1
null == -2

Null == [op |-> "null"]        \* an enumerator variable that is still undefined / null

NoErr == "none"
TypeError == "TypeError"             \* a method call on undefined
seqNoElements == "seqNoElements"     \* new Error(seqNoElements)
invalidOperation == "invalidOperation"
CallbackError == "CallbackError"     \* an error thrown by a user callback

\* Outcome of a call: the callee's new state, the returned value, the error thrown
\* Bind(v, K) is K(v): it names the value v for the rest of the step
Bind(v, K(_)) == K(v)

Ret(e, r) == [e |-> e, ret |-> r, err |-> NoErr]
Throw(e, err) == [e |-> e, ret |-> FALSE, err |-> err]

----------------------------------------------------------------------------
(* User callbacks.  A selector is [fn, throws]: it throws on the elements  *)
(* of throws and otherwise computes fn.  A predicate is [holds, throws].   *)

Call(val) == [val |-> val, err |-> NoErr]
CallThrows == [val |-> undefined, err |-> CallbackError]

identity == [fn |-> "identity", throws |-> {}]
nullFn == [fn |-> "null", throws |-> {}]     \* an optional callback that was not passed

ApplyFn(fn, x, index) ==
    CASE fn = "identity" -> x
      [] fn = "succ"     -> x + 1
      [] fn = "addIndex" -> x + index
      [] fn = "mod2"     -> x % 2
      [] fn = "div2"     -> x \div 2
      [] fn = "zero"     -> 0
      [] fn = "word"     -> IF x = 0 THEN "constructor" ELSE IF x = 1 THEN "a" ELSE "ab"

CallSelector(selector, x, index) ==
    IF x \in selector.throws THEN CallThrows ELSE Call(ApplyFn(selector.fn, x, index))

\* predicate(x, index); byIndex predicates look at the index argument only
CallPredicate(predicate, x, index) ==
    IF x \in predicate.throws THEN CallThrows
    ELSE Call(IF predicate.byIndex THEN index \in predicate.holds ELSE x \in predicate.holds)

\* zip's selector(a, b) and selectMany's resultSelector(o, current)
CallSelector2(selector, a, b) ==
    IF a \in selector.throws \/ b \in selector.throws THEN CallThrows
    ELSE Call(CASE selector.fn = "sum"    -> a + b
                [] selector.fn = "left"   -> a
                [] selector.fn = "right"  -> b)

\* Equality comparers: the default (===) or a user function
defaultEqualityComparer == "defaultEqualityComparer"
sameParity == "sameParity"
CallEquality(comparer, a, b) ==
    CASE comparer = defaultEqualityComparer -> a = b
      [] comparer = sameParity              -> (a % 2) = (b % 2)

\* Ordering comparers: the default or a user function
defaultComparer == "defaultComparer"
reverseComparer == "reverseComparer"
CallComparer(comparer, a, b) ==
    CASE comparer = defaultComparer -> IF a > b THEN 1 ELSE IF a < b THEN -1 ELSE 0
      [] comparer = reverseComparer -> b - a

----------------------------------------------------------------------------
(* Enumerables: the records the constructors build *)

enumerableFromArray(array) == [op |-> "fromArray", array |-> array]
enumerableRange(start, count) == [op |-> "range", start |-> start, count |-> count]
enumerableRepeat(value, repeatCount) ==
    [op |-> "repeat", value |-> value, repeatCount |-> repeatCount]
returnValue(value) == [op |-> "returnValue", value |-> value]
enumerableEmpty == [op |-> "empty"]

select(parent, selector) == [op |-> "select", parent |-> parent, selector |-> selector]
where(parent, selector) == [op |-> "where", parent |-> parent, selector |-> selector]
skip(parent, count) == [op |-> "skip", parent |-> parent, count |-> count]
skipWhile(parent, selector) == [op |-> "skipWhile", parent |-> parent, selector |-> selector]
take(parent, count) == [op |-> "take", parent |-> parent, count |-> count]
takeWhile(parent, selector) == [op |-> "takeWhile", parent |-> parent, selector |-> selector]
distinct(parent, comparer) == [op |-> "distinct", parent |-> parent, comparer |-> comparer]
defaultIfEmpty(parent, defaultValue) ==
    [op |-> "defaultIfEmpty", parent |-> parent, defaultValue |-> defaultValue]
zip(parent, right, selector) ==
    [op |-> "zip", parent |-> parent, right |-> right, selector |-> selector]
selectMany(parent, collectionSelector, resultSelector) ==
    [op |-> "selectMany", parent |-> parent, collectionSelector |-> collectionSelector,
     resultSelector |-> resultSelector]
union(parent, second, comparer) ==
    [op |-> "union", parent |-> parent, second |-> second, comparer |-> comparer]
except(parent, second, comparer) ==
    [op |-> "except", parent |-> parent, second |-> second, comparer |-> comparer]
intersect(parent, second, comparer) ==
    [op |-> "intersect", parent |-> parent, second |-> second, comparer |-> comparer]
groupBy(parent, keySelector, elementSelector, resultSelector, keySerializer) ==
    [op |-> "groupBy", parent |-> parent, keySelector |-> keySelector,
     elementSelector |-> IF elementSelector = nullFn THEN identity ELSE elementSelector,
     resultSelector |-> resultSelector,
     keySerializer |-> IF keySerializer = nullFn THEN [fn |-> "defaultSerializer", throws |-> {}]
                       ELSE keySerializer]

\* Enumerable.concat: enumerableFromArray(arguments).selectMany(identity)
enumerableConcat(arguments) == selectMany(enumerableFromArray(arguments), identity, nullFn)
\* faulty variant: this is pushed onto the end of args
concatPushesThis(this, args) == enumerableConcat(args \o <<this>>)

\* args.unshift(this); return enumerableConcat.apply(null, args);
concat(this, args) == enumerableConcat(<<this>> \o args)

\* OrderedEnumerable: new OrderedEnumerable(source, keySelector, comparer, descending);
\* parent is the node thenBy / thenByDescending was called on
nullComparer == "null"
OrderedEnumerable(source, keySelector, comparer, descending) ==
    [op |-> "ordered", source |-> source,
     keySelector |-> IF keySelector = nullFn THEN identity ELSE keySelector,
     comparer |-> IF comparer = nullComparer THEN defaultComparer ELSE comparer,
     descending |-> descending, parent |-> Null]
orderBy(source, keySelector, comparer) ==
    OrderedEnumerable(source, keySelector, comparer, FALSE)
orderByDescending(source, keySelector, comparer) ==
    OrderedEnumerable(source, keySelector, comparer, TRUE)
createOrderedEnumerable(this, keySelector, comparer, descending) ==
    [OrderedEnumerable(this.source, keySelector, comparer, descending) EXCEPT !.parent = this]
thenBy(this, keySelector, comparer) ==
    createOrderedEnumerable(this, keySelector, nullComparer, FALSE)
thenByDescending(this, keySelector, comparer) ==
    createOrderedEnumerable(this, keySelector, comparer, FALSE)

RECURSIVE GetEnumerator(_), MoveNext(_), GetCurrent(_), Dispose(_)

\* keySerializer(key): the default stringifies the key
CallSerializer(serializer, key) ==
    CASE serializer.fn = "defaultSerializer" -> ToString(key)
      [] serializer.fn = "parity"            -> IF key % 2 = 0 THEN "even" ELSE "odd"
      [] serializer.fn = "asIs"              -> key
      [] serializer.fn = "initial"           -> IF key = "constructor" THEN "c" ELSE "a"

\* collectionSelector(x): the Enumerable selectMany enumerates for the outer element x
CallCollectionSelector(selector, x) ==
    CASE selector.fn = "identity" -> Call(x)
      [] selector.fn = "rangeTo"  ->
            IF x \in selector.throws THEN CallThrows ELSE Call(enumerableRange(0, x))
      [] selector.fn = "twice"    ->
            IF x \in selector.throws THEN CallThrows ELSE Call(enumerableRepeat(x, 2))

\* enumerator || (enumerator = parent.getEnumerator())
Ensure(enumerator, parent) ==
    IF enumerator # Null THEN Ret(enumerator, TRUE) ELSE GetEnumerator(parent)

NonNull(seq) == SelectSeq(seq, LAMBDA x : x # Null)

\* x.dispose() on a variable that may still be undefined
DisposeOf(x) == IF x = Null THEN Throw(x, TypeError) ELSE Dispose(x)

----------------------------------------------------------------------------
(* Base sources *)

fromArrayGetEnumerator(a) ==
    [op |-> "fromArray", array |-> a.array, index |-> 0, value |-> undefined,
     calls |-> 0, disposed |-> 0]

fromArrayMoveNext(s) ==
    IF s.index < Len(s.array)
    THEN Ret([s EXCEPT !.value = s.array[s.index + 1], !.index = @ + 1], TRUE)
    ELSE Ret(s, FALSE)

rangeGetEnumerator(a) ==
    [op |-> "range", current |-> a.start - 1, end |-> a.start + a.count - 1,
     calls |-> 0, disposed |-> 0]

rangeMoveNext(s) ==
    IF s.current < s.end THEN Ret([s EXCEPT !.current = @ + 1], TRUE) ELSE Ret(s, FALSE)

repeatGetEnumerator(a) ==
    [op |-> "repeat", value |-> a.value,
     count |-> IF a.repeatCount = null THEN -1 ELSE a.repeatCount,
     hasRepeatCount |-> a.repeatCount # null,
     calls |-> 0, disposed |-> 0]

\* faulty variant: count is decremented before it is tested, also once it is 0
repeatMoveNextEager(s) ==
    IF s.count # 0
    THEN Ret([s EXCEPT !.count = IF s.hasRepeatCount THEN @ - 1 ELSE @], TRUE)
    ELSE Ret([s EXCEPT !.count = IF s.hasRepeatCount THEN @ - 1 ELSE @], FALSE)

repeatMoveNext(s) ==
    IF s.count # 0
    THEN Ret([s EXCEPT !.count = IF s.hasRepeatCount THEN @ - 1 ELSE @], TRUE)
    ELSE Ret(s, FALSE)

returnValueGetEnumerator(a) ==
    [op |-> "returnValue", value |-> a.value, done |-> FALSE, calls |-> 0, disposed |-> 0]

returnValueMoveNext(s) ==
    IF s.done THEN Ret(s, FALSE) ELSE Ret([s EXCEPT !.done = TRUE], TRUE)

emptyGetEnumerator(a) == [op |-> "empty", calls |-> 0, disposed |-> 0]

emptyMoveNext(s) == Ret(s, FALSE)

----------------------------------------------------------------------------
(* arrayIndexOf / arrayRemove: arrays are sequences, indices 0-based as in  *)
(* the source; the scan runs from the last element down                     *)

RECURSIVE arrayIndexOfFrom(_, _, _, _)
arrayIndexOfFrom(array, item, comparer, idx) ==
    IF idx = 0 THEN -1
    ELSE IF CallEquality(comparer, array[idx], item) THEN idx - 1
    ELSE arrayIndexOfFrom(array, item, comparer, idx - 1)

arrayIndexOf(array, item, comparer) == arrayIndexOfFrom(array, item, comparer, Len(array))

\* this.splice(idx, 1)
splice1(array, idx) ==
    [k \in 1 .. Len(array) - 1 |-> IF k <= idx THEN array[k] ELSE array[k + 1]]

\* faulty variant: the element found is left in the array
arrayRemoveKeeps(array, item, comparer) ==
    [array |-> array, removed |-> arrayIndexOf(array, item, comparer) # -1]

\* var idx = arrayIndexOf.call(this, item, comparer);
\* if (idx === -1) { return false; } this.splice(idx, 1); return true;
arrayRemove(array, item, comparer) ==
    Bind(arrayIndexOf(array, item, comparer), LAMBDA idx :
    IF idx = -1 THEN [array |-> array, removed |-> FALSE]
    ELSE [array |-> splice1(array, idx), removed |-> TRUE])

----------------------------------------------------------------------------
(* select *)

selectGetEnumerator(a) ==
    [op |-> "select", parent |-> a.parent, selector |-> a.selector,
     current |-> undefined, index |-> 0, enumerator |-> Null,
     calls |-> 0, disposed |-> 0]

selectMoveNext(s) ==
    Bind(Ensure(s.enumerator, s.parent), LAMBDA g :
    IF g.err # NoErr THEN Throw(s, g.err) ELSE
    Bind(MoveNext(g.e), LAMBDA m :
    Bind([s EXCEPT !.enumerator = m.e], LAMBDA s1 :
        IF m.err # NoErr THEN Throw(s1, m.err)
        ELSE IF ~m.ret THEN Ret(s1, FALSE)
        ELSE Bind(CallSelector(s.selector, GetCurrent(m.e), s.index), LAMBDA v :
             Bind([s1 EXCEPT !.index = @ + 1], LAMBDA s2 :
                 IF v.err # NoErr THEN Throw(s2, v.err)
                 ELSE Ret([s2 EXCEPT !.current = v.val], TRUE))))))

\* faulty variant: the stage's own dispose does not reach its parent enumerator
uncheckedDisposeStops(s) == Ret(s, FALSE)

\* function () { enumerator.dispose(); }   (select, where, skip, skipWhile, take,
\* takeWhile and distinct share this dispose)
uncheckedDispose(s) ==
    Bind(DisposeOf(s.enumerator), LAMBDA d :
    [e |-> [s EXCEPT !.enumerator = d.e], ret |-> FALSE, err |-> d.err])

\* function () { e && e.dispose(); }   (defaultIfEmpty, except, intersect)
checkedDispose(s) ==
    IF s.enumerator = Null THEN Ret(s, FALSE)
    ELSE Bind(Dispose(s.enumerator), LAMBDA d :
         [e |-> [s EXCEPT !.enumerator = d.e], ret |-> FALSE, err |-> d.err])

----------------------------------------------------------------------------
(* where *)

\* log collects the (element, index) pairs the selector has been called with
whereGetEnumerator(a) ==
    [op |-> "where", parent |-> a.parent, selector |-> a.selector,
     current |-> undefined, index |-> 0, enumerator |-> Null, log |-> <<>>,
     calls |-> 0, disposed |-> 0]

\* faulty variant: index is incremented only when the selector accepts the element
RECURSIVE whereLoopCountsMatches(_)
whereLoopCountsMatches(s) ==
    Bind(MoveNext(s.enumerator), LAMBDA m :
    Bind([s EXCEPT !.enumerator = m.e], LAMBDA s1 :
        IF m.err # NoErr THEN Throw(s1, m.err)
        ELSE IF ~m.ret THEN Ret(s1, FALSE)
        ELSE Bind([s1 EXCEPT !.current = GetCurrent(m.e),
                             !.log = Append(@, <<GetCurrent(m.e), s.index>>)], LAMBDA s2 :
             Bind(CallPredicate(s.selector, s2.current, s.index), LAMBDA p :
                 IF p.err # NoErr THEN Throw(s2, p.err)
                 ELSE IF p.val THEN Ret([s2 EXCEPT !.index = @ + 1], TRUE)
                 ELSE whereLoopCountsMatches(s2)))))

\* while (true) { if (!enumerator.moveNext()) { return false; }
\* current = enumerator.getCurrent(); if (selector(current, index++)) { return true; } }
RECURSIVE whereLoop(_)
whereLoop(s) ==
    Bind(MoveNext(s.enumerator), LAMBDA m :
    Bind([s EXCEPT !.enumerator = m.e], LAMBDA s1 :
        IF m.err # NoErr THEN Throw(s1, m.err)
        ELSE IF ~m.ret THEN Ret(s1, FALSE)
        ELSE Bind([s1 EXCEPT !.current = GetCurrent(m.e), !.index = @ + 1,
                             !.log = Append(@, <<GetCurrent(m.e), s.index>>)], LAMBDA s2 :
             Bind(CallPredicate(s.selector, s2.current, s.index), LAMBDA p :
                 IF p.err # NoErr THEN Throw(s2, p.err)
                 ELSE IF p.val THEN Ret(s2, TRUE)
                 ELSE whereLoop(s2)))))

whereMoveNext(s) ==
    Bind(Ensure(s.enumerator, s.parent), LAMBDA g :
    IF g.err # NoErr THEN Throw(s, g.err)
    ELSE whereLoop([s EXCEPT !.enumerator = g.e]))

----------------------------------------------------------------------------
(* skip *)

skipGetEnumerator(a) ==
    [op |-> "skip", parent |-> a.parent, count |-> a.count,
     current |-> undefined, skipped |-> FALSE, enumerator |-> Null,
     calls |-> 0, disposed |-> 0]

\* if (!enumerator.moveNext()) { return false; } current = enumerator.getCurrent(); return true;
passThrough(s) ==
    Bind(MoveNext(s.enumerator), LAMBDA m :
    Bind([s EXCEPT !.enumerator = m.e], LAMBDA s1 :
        IF m.err # NoErr THEN Throw(s1, m.err)
        ELSE IF ~m.ret THEN Ret(s1, FALSE)
        ELSE Ret([s1 EXCEPT !.current = GetCurrent(m.e)], TRUE)))

\* for (var i = 0; i < count; i++) { if (!enumerator.moveNext()) { return false; } }
RECURSIVE skipLoop(_, _)
skipLoop(s, i) ==
    IF ~(i < s.count) THEN passThrough([s EXCEPT !.skipped = TRUE])
    ELSE Bind(MoveNext(s.enumerator), LAMBDA m :
         Bind([s EXCEPT !.enumerator = m.e], LAMBDA s1 :
             IF m.err # NoErr THEN Throw(s1, m.err)
             ELSE IF ~m.ret THEN Ret(s1, FALSE)
             ELSE skipLoop(s1, i + 1)))

skipMoveNext(s) ==
    Bind(Ensure(s.enumerator, s.parent), LAMBDA g :
    IF g.err # NoErr THEN Throw(s, g.err) ELSE
    Bind([s EXCEPT !.enumerator = g.e], LAMBDA s0 :
    IF ~s0.skipped THEN skipLoop(s0, 0) ELSE passThrough(s0)))

----------------------------------------------------------------------------
(* skipWhile: the assignment skipped = true follows a while (true) loop that *)
(* is only left by return, so it is never executed                          *)

skipWhileGetEnumerator(a) ==
    [op |-> "skipWhile", parent |-> a.parent, selector |-> a.selector,
     current |-> undefined, skipped |-> FALSE, enumerator |-> Null,
     calls |-> 0, disposed |-> 0]

RECURSIVE skipWhileLoop(_)
skipWhileLoop(s) ==
    Bind(MoveNext(s.enumerator), LAMBDA m :
    Bind([s EXCEPT !.enumerator = m.e], LAMBDA s1 :
        IF m.err # NoErr THEN Throw(s1, m.err)
        ELSE IF ~m.ret THEN Ret(s1, FALSE)
        ELSE Bind(CallPredicate(s.selector, GetCurrent(m.e), undefined), LAMBDA p :
             IF p.err # NoErr THEN Throw(s1, p.err)
             ELSE IF ~p.val THEN Ret([s1 EXCEPT !.current = GetCurrent(m.e)], TRUE)
             ELSE skipWhileLoop(s1))))

skipWhileMoveNext(s) ==
    Bind(Ensure(s.enumerator, s.parent), LAMBDA g :
    IF g.err # NoErr THEN Throw(s, g.err) ELSE
    Bind([s EXCEPT !.enumerator = g.e], LAMBDA s0 :
    IF ~s0.skipped THEN skipWhileLoop(s0) ELSE passThrough(s0)))

----------------------------------------------------------------------------
(* take *)

takeGetEnumerator(a) ==
    [op |-> "take", parent |-> a.parent,
     current |-> undefined, enumerator |-> Null, myCount |-> a.count,
     calls |-> 0, disposed |-> 0]

\* faulty variant: the count is tested only after the parent has been advanced
takeMoveNextLate(s) ==
    Bind(Ensure(s.enumerator, s.parent), LAMBDA g :
    IF g.err # NoErr THEN Throw(s, g.err) ELSE
    Bind(MoveNext(g.e), LAMBDA m :
    Bind([s EXCEPT !.enumerator = m.e], LAMBDA s1 :
        IF m.err # NoErr THEN Throw(s1, m.err)
        ELSE IF ~m.ret \/ s1.myCount = 0 THEN Ret([s1 EXCEPT !.myCount = 0], FALSE)
        ELSE Ret([s1 EXCEPT !.myCount = @ - 1, !.current = GetCurrent(m.e)], TRUE))))

takeMoveNext(s) ==
    Bind(Ensure(s.enumerator, s.parent), LAMBDA g :
    IF g.err # NoErr THEN Throw(s, g.err) ELSE
    Bind([s EXCEPT !.enumerator = g.e], LAMBDA s0 :
    IF s0.myCount = 0 THEN Ret(s0, FALSE) ELSE
    Bind(MoveNext(s0.enumerator), LAMBDA m :
    Bind([s0 EXCEPT !.enumerator = m.e], LAMBDA s1 :
        IF m.err # NoErr THEN Throw(s1, m.err)
        ELSE IF ~m.ret THEN Ret([s1 EXCEPT !.myCount = 0], FALSE)
        ELSE Ret([s1 EXCEPT !.myCount = @ - 1, !.current = GetCurrent(m.e)], TRUE)))))

----------------------------------------------------------------------------
(* takeWhile *)

takeWhileGetEnumerator(a) ==
    [op |-> "takeWhile", parent |-> a.parent, selector |-> a.selector,
     current |-> undefined, index |-> 0, enumerator |-> Null,
     calls |-> 0, disposed |-> 0]

takeWhileMoveNext(s) ==
    Bind(Ensure(s.enumerator, s.parent), LAMBDA g :
    IF g.err # NoErr THEN Throw(s, g.err) ELSE
    Bind(MoveNext(g.e), LAMBDA m :
    Bind([s EXCEPT !.enumerator = m.e], LAMBDA s1 :
        IF m.err # NoErr THEN Throw(s1, m.err)
        ELSE IF ~m.ret THEN Ret(s1, FALSE)
        ELSE Bind([s1 EXCEPT !.current = GetCurrent(m.e), !.index = @ + 1], LAMBDA s2 :
             Bind(CallPredicate(s.selector, s2.current, s.index), LAMBDA p :
                 IF p.err # NoErr THEN Throw(s2, p.err)
                 ELSE Ret(s2, p.val))))))

----------------------------------------------------------------------------
(* distinct *)

distinctGetEnumerator(a) ==
    [op |-> "distinct", parent |-> a.parent, comparer |-> a.comparer,
     current |-> undefined, map |-> <<>>, enumerator |-> Null,
     calls |-> 0, disposed |-> 0]

\* faulty variant: map holds only the element yielded last
RECURSIVE distinctLoopAdjacent(_)
distinctLoopAdjacent(s) ==
    Bind(MoveNext(s.enumerator), LAMBDA m :
    Bind([s EXCEPT !.enumerator = m.e], LAMBDA s1 :
        IF m.err # NoErr THEN Throw(s1, m.err)
        ELSE IF ~m.ret THEN Ret(s1, FALSE)
        ELSE Bind([s1 EXCEPT !.current = GetCurrent(m.e)], LAMBDA s2 :
             IF arrayIndexOf(s2.map, s2.current, s.comparer) = -1
             THEN Ret([s2 EXCEPT !.map = <<s2.current>>], TRUE)
             ELSE distinctLoopAdjacent(s2))))

\* while (true) { if (!enumerator.moveNext()) { return false; }
\* current = enumerator.getCurrent();
\* if (arrayIndexOf.call(map, current, comparer) === -1) { map.push(current); return true; } }
RECURSIVE distinctLoop(_)
distinctLoop(s) ==
    Bind(MoveNext(s.enumerator), LAMBDA m :
    Bind([s EXCEPT !.enumerator = m.e], LAMBDA s1 :
        IF m.err # NoErr THEN Throw(s1, m.err)
        ELSE IF ~m.ret THEN Ret(s1, FALSE)
        ELSE Bind([s1 EXCEPT !.current = GetCurrent(m.e)], LAMBDA s2 :
             IF arrayIndexOf(s2.map, s2.current, s.comparer) = -1
             THEN Ret([s2 EXCEPT !.map = Append(@, s2.current)], TRUE)
             ELSE distinctLoop(s2))))

distinctMoveNext(s) ==
    Bind(Ensure(s.enumerator, s.parent), LAMBDA g :
    IF g.err # NoErr THEN Throw(s, g.err)
    ELSE distinctLoop([s EXCEPT !.enumerator = g.e]))

----------------------------------------------------------------------------
(* defaultIfEmpty: the enumerator variable is called e in the source *)

defaultIfEmptyGetEnumerator(a) ==
    [op |-> "defaultIfEmpty", parent |-> a.parent, defaultValue |-> a.defaultValue,
     current |-> undefined, isFirst |-> TRUE, hasDefault |-> FALSE, enumerator |-> Null,
     calls |-> 0, disposed |-> 0]

\* faulty variant: the default is yielded once the source is exhausted, empty or not
defaultIfEmptyAppends(s) ==
    Bind(Ensure(s.enumerator, s.parent), LAMBDA g :
    IF g.err # NoErr THEN Throw(s, g.err) ELSE
    Bind([s EXCEPT !.enumerator = g.e], LAMBDA s0 :
    IF s0.hasDefault THEN Ret(s0, FALSE)
    ELSE Bind(MoveNext(s0.enumerator), LAMBDA m :
         Bind([s0 EXCEPT !.enumerator = m.e, !.isFirst = FALSE], LAMBDA s1 :
             IF m.err # NoErr THEN Throw(s1, m.err)
             ELSE IF ~m.ret
             THEN Ret([s1 EXCEPT !.current = s.defaultValue, !.hasDefault = TRUE], TRUE)
             ELSE Ret([s1 EXCEPT !.current = GetCurrent(m.e)], TRUE)))))

defaultIfEmptyMoveNext(s) ==
    Bind(Ensure(s.enumerator, s.parent), LAMBDA g :
    IF g.err # NoErr THEN Throw(s, g.err) ELSE
    Bind([s EXCEPT !.enumerator = g.e], LAMBDA s0 :
    IF s0.hasDefault THEN Ret(s0, FALSE)
    ELSE IF s0.isFirst
    THEN Bind(MoveNext(s0.enumerator), LAMBDA m :
         Bind([s0 EXCEPT !.enumerator = m.e, !.isFirst = FALSE], LAMBDA s1 :
             IF m.err # NoErr THEN Throw(s1, m.err)
             ELSE IF ~m.ret
             THEN Ret([s1 EXCEPT !.current = s.defaultValue, !.hasDefault = TRUE], TRUE)
             ELSE Ret([s1 EXCEPT !.current = GetCurrent(m.e)], TRUE)))
    ELSE passThrough(s0)))

----------------------------------------------------------------------------
(* zip *)

zipGetEnumerator(a) ==
    [op |-> "zip", parent |-> a.parent, right |-> a.right, selector |-> a.selector,
     e1 |-> Null, e2 |-> Null, current |-> undefined,
     calls |-> 0, disposed |-> 0]

\* if (!e1 && !e2) { e1 = parent.getEnumerator(); e2 = right.getEnumerator(); }
zipCreate(s) ==
    IF s.e1 = Null /\ s.e2 = Null
    THEN Bind(GetEnumerator(s.parent), LAMBDA g1 :
         IF g1.err # NoErr THEN Throw(s, g1.err)
         ELSE Bind(GetEnumerator(s.right), LAMBDA g2 :
              Bind([s EXCEPT !.e1 = g1.e], LAMBDA s1 :
                  IF g2.err # NoErr THEN Throw(s1, g2.err)
                  ELSE Ret([s1 EXCEPT !.e2 = g2.e], TRUE))))
    ELSE Ret(s, TRUE)

\* faulty variant: an exhausted right side does not end the enumeration
zipMoveNextLeftOnly(s) ==
    Bind(zipCreate(s), LAMBDA c :
    IF c.err # NoErr THEN c
    ELSE IF c.e.e1 = Null THEN Throw(c.e, TypeError)
    ELSE Bind(MoveNext(c.e.e1), LAMBDA m1 :
         Bind([c.e EXCEPT !.e1 = m1.e], LAMBDA s1 :
             IF m1.err # NoErr THEN Throw(s1, m1.err)
             ELSE IF ~m1.ret THEN Ret(s1, FALSE)
             ELSE IF s1.e2 = Null THEN Throw(s1, TypeError)
             ELSE Bind(MoveNext(s1.e2), LAMBDA m2 :
                  Bind([s1 EXCEPT !.e2 = m2.e], LAMBDA s2 :
                      IF m2.err # NoErr THEN Throw(s2, m2.err)
                      ELSE IF ~m2.ret THEN Ret(s2, TRUE)
                      ELSE Bind(CallSelector2(s.selector, GetCurrent(m1.e), GetCurrent(m2.e)), LAMBDA v :
                               IF v.err # NoErr THEN Throw(s2, v.err)
                               ELSE Ret([s2 EXCEPT !.current = v.val], TRUE)))))))

zipMoveNext(s) ==
    Bind(zipCreate(s), LAMBDA c :
    IF c.err # NoErr THEN c
    ELSE IF c.e.e1 = Null THEN Throw(c.e, TypeError)
    ELSE Bind(MoveNext(c.e.e1), LAMBDA m1 :
         Bind([c.e EXCEPT !.e1 = m1.e], LAMBDA s1 :
             IF m1.err # NoErr THEN Throw(s1, m1.err)
             ELSE IF ~m1.ret THEN Ret(s1, FALSE)
             ELSE IF s1.e2 = Null THEN Throw(s1, TypeError)
             ELSE Bind(MoveNext(s1.e2), LAMBDA m2 :
                  Bind([s1 EXCEPT !.e2 = m2.e], LAMBDA s2 :
                      IF m2.err # NoErr THEN Throw(s2, m2.err)
                      ELSE IF ~m2.ret THEN Ret(s2, FALSE)
                      ELSE Bind(CallSelector2(s.selector, GetCurrent(m1.e), GetCurrent(m2.e)), LAMBDA v :
                               IF v.err # NoErr THEN Throw(s2, v.err)
                               ELSE Ret([s2 EXCEPT !.current = v.val], TRUE)))))))

\* function () { e1.dispose(); e2.dispose(); }
zipDispose(s) ==
    Bind(DisposeOf(s.e1), LAMBDA d1 :
    Bind([s EXCEPT !.e1 = d1.e], LAMBDA s1 :
        IF d1.err # NoErr THEN Throw(s1, d1.err)
        ELSE Bind(DisposeOf(s.e2), LAMBDA d2 :
             [e |-> [s1 EXCEPT !.e2 = d2.e], ret |-> FALSE, err |-> d2.err])))

----------------------------------------------------------------------------
(* selectMany.  released collects the inner enumerators the code has        *)
(* disposed and overwritten with null.                                      *)

selectManyGetEnumerator(a) ==
    [op |-> "selectMany", parent |-> a.parent,
     collectionSelector |-> a.collectionSelector, resultSelector |-> a.resultSelector,
     current |-> undefined, index |-> 0, outerEnumerator |-> Null, innerEnumerator |-> Null,
     released |-> <<>>, calls |-> 0, disposed |-> 0]

RECURSIVE selectManyLoop(_)

selectManyInner(s) ==
    Bind(MoveNext(s.innerEnumerator), LAMBDA m :
    Bind([s EXCEPT !.innerEnumerator = m.e], LAMBDA s1 :
        IF m.err # NoErr THEN Throw(s1, m.err)
        ELSE IF m.ret
        THEN IF s.resultSelector # nullFn
             THEN Bind(CallSelector2(s.resultSelector,
                       GetCurrent(s.outerEnumerator), GetCurrent(m.e)), LAMBDA v :
                      IF v.err # NoErr THEN Throw([s1 EXCEPT !.current = GetCurrent(m.e)], v.err)
                      ELSE Ret([s1 EXCEPT !.current = v.val], TRUE))
             ELSE Ret([s1 EXCEPT !.current = GetCurrent(m.e)], TRUE)
        ELSE Bind(Dispose(m.e), LAMBDA d :
             IF d.err # NoErr THEN Throw([s1 EXCEPT !.innerEnumerator = d.e], d.err)
             ELSE selectManyLoop([s1 EXCEPT !.innerEnumerator = Null,
                                            !.released = Append(@, d.e)]))))

selectManyLoop(s) ==
    IF s.innerEnumerator = Null
    THEN Bind(MoveNext(s.outerEnumerator), LAMBDA m :
         Bind([s EXCEPT !.outerEnumerator = m.e], LAMBDA s1 :
             IF m.err # NoErr THEN Throw(s1, m.err)
             ELSE IF ~m.ret THEN Ret(s1, FALSE)
             ELSE Bind(CallCollectionSelector(s.collectionSelector, GetCurrent(m.e)), LAMBDA c :
                  IF c.err # NoErr THEN Throw(s1, c.err)
                  ELSE Bind(GetEnumerator(c.val), LAMBDA g :
                       IF g.err # NoErr THEN Throw(s1, g.err)
                       ELSE selectManyInner([s1 EXCEPT !.innerEnumerator = g.e])))))
    ELSE selectManyInner(s)

selectManyMoveNext(s) ==
    Bind(Ensure(s.outerEnumerator, s.parent), LAMBDA g :
    IF g.err # NoErr THEN Throw(s, g.err)
    ELSE selectManyLoop([s EXCEPT !.outerEnumerator = g.e]))

\* faulty variant: only the outer enumerator is disposed
selectManyDisposeOuterOnly(s) ==
    Bind(IF s.outerEnumerator = Null THEN Ret(Null, FALSE)
         ELSE Dispose(s.outerEnumerator), LAMBDA d2 :
        [e |-> [s EXCEPT !.outerEnumerator = d2.e], ret |-> FALSE, err |-> d2.err])

\* innerEnumerator && innerEnumerator.dispose(); outerEnumerator && outerEnumerator.dispose();
selectManyDispose(s) ==
    Bind(IF s.innerEnumerator = Null THEN Ret(Null, FALSE) ELSE Dispose(s.innerEnumerator), LAMBDA d1 :
    Bind([s EXCEPT !.innerEnumerator = d1.e], LAMBDA s1 :
        IF d1.err # NoErr THEN Throw(s1, d1.err)
        ELSE Bind(IF s.outerEnumerator = Null THEN Ret(Null, FALSE)
                  ELSE Dispose(s.outerEnumerator), LAMBDA d2 :
                 [e |-> [s1 EXCEPT !.outerEnumerator = d2.e], ret |-> FALSE, err |-> d2.err])))

----------------------------------------------------------------------------
(* union.  released collects the enumerators disposed and set to null.      *)

unionGetEnumerator(a) ==
    [op |-> "union", parent |-> a.parent, second |-> a.second, comparer |-> a.comparer,
     current |-> undefined, enumerator |-> Null, map |-> <<>>,
     firstDone |-> FALSE, secondDone |-> FALSE,
     released |-> <<>>, calls |-> 0, disposed |-> 0]

RECURSIVE unionLoop(_)

unionStep(s) ==
    Bind(MoveNext(s.enumerator), LAMBDA m :
    Bind([s EXCEPT !.enumerator = m.e], LAMBDA s1 :
        IF m.err # NoErr THEN Throw(s1, m.err)
        ELSE IF m.ret
        THEN Bind([s1 EXCEPT !.current = GetCurrent(m.e)], LAMBDA s2 :
             IF arrayIndexOf(s2.map, s2.current, s.comparer) = -1
             THEN Ret([s2 EXCEPT !.map = Append(@, s2.current)], TRUE)
             ELSE unionLoop(s2))
        ELSE Bind(Dispose(m.e), LAMBDA d :
             IF d.err # NoErr THEN Throw([s1 EXCEPT !.enumerator = d.e], d.err)
             ELSE unionLoop([s1 EXCEPT !.enumerator = Null, !.released = Append(@, d.e)]))))

unionLoop(s) ==
    IF s.enumerator = Null
    THEN IF s.secondDone THEN Ret(s, FALSE)
         ELSE IF ~s.firstDone
         THEN Bind(GetEnumerator(s.parent), LAMBDA g :
              IF g.err # NoErr THEN Throw(s, g.err)
              ELSE unionStep([s EXCEPT !.enumerator = g.e, !.firstDone = TRUE]))
         ELSE Bind(GetEnumerator(s.second), LAMBDA g :
              IF g.err # NoErr THEN Throw(s, g.err)
              ELSE unionStep([s EXCEPT !.enumerator = g.e, !.secondDone = TRUE]))
    ELSE unionStep(s)

unionMoveNext(s) == unionLoop(s)

----------------------------------------------------------------------------
(* except and intersect: the factory itself drains this (the first         *)
(* sequence) into map; the enumerator then walks second.  The source calls *)
(* the lazily created enumerator secondEnumerator.                         *)

\* while (firstEnumerator.moveNext()) { map.push(firstEnumerator.getCurrent()); }
RECURSIVE drain(_, _)
drain(e, results) ==
    Bind(MoveNext(e), LAMBDA m :
    IF m.err # NoErr THEN [e |-> m.e, results |-> results, err |-> m.err]
    ELSE IF ~m.ret THEN [e |-> m.e, results |-> results, err |-> NoErr]
    ELSE drain(m.e, Append(results, GetCurrent(m.e))))

\* try { drain } finally { enumerator.dispose(); }
drainAndDispose(enumerable) ==
    Bind(GetEnumerator(enumerable), LAMBDA g :
    IF g.err # NoErr THEN [e |-> Null, results |-> <<>>, err |-> g.err]
    ELSE Bind(drain(g.e, <<>>), LAMBDA r :
         Bind(Dispose(r.e), LAMBDA d :
             [e |-> d.e, results |-> r.results,
              err |-> IF d.err # NoErr THEN d.err ELSE r.err])))

exceptGetEnumerator(a) ==
    Bind(drainAndDispose(a.parent), LAMBDA f :
    [e |-> [op |-> "except", second |-> a.second, comparer |-> a.comparer,
            current |-> undefined, map |-> f.results, firstEnumerator |-> f.e,
            enumerator |-> Null, calls |-> 0, disposed |-> 0],
     ret |-> TRUE, err |-> f.err])

RECURSIVE exceptLoop(_)
exceptLoop(s) ==
    Bind(MoveNext(s.enumerator), LAMBDA m :
    Bind([s EXCEPT !.enumerator = m.e], LAMBDA s1 :
        IF m.err # NoErr THEN Throw(s1, m.err)
        ELSE IF ~m.ret THEN Ret(s1, FALSE)
        ELSE Bind([s1 EXCEPT !.current = GetCurrent(m.e)], LAMBDA s2 :
             IF arrayIndexOf(s2.map, s2.current, s.comparer) = -1
             THEN Ret([s2 EXCEPT !.map = Append(@, s2.current)], TRUE)
             ELSE exceptLoop(s2))))

exceptMoveNext(s) ==
    Bind(Ensure(s.enumerator, s.second), LAMBDA g :
    IF g.err # NoErr THEN Throw(s, g.err)
    ELSE exceptLoop([s EXCEPT !.enumerator = g.e]))

intersectGetEnumerator(a) ==
    Bind(drainAndDispose(a.parent), LAMBDA f :
    [e |-> [op |-> "intersect", second |-> a.second, comparer |-> a.comparer,
            current |-> undefined, map |-> f.results, firstEnumerator |-> f.e,
            enumerator |-> Null, calls |-> 0, disposed |-> 0],
     ret |-> TRUE, err |-> f.err])

RECURSIVE intersectLoop(_)
intersectLoop(s) ==
    Bind(MoveNext(s.enumerator), LAMBDA m :
    Bind([s EXCEPT !.enumerator = m.e], LAMBDA s1 :
        IF m.err # NoErr THEN Throw(s1, m.err)
        ELSE IF ~m.ret THEN Ret(s1, FALSE)
        ELSE Bind([s1 EXCEPT !.current = GetCurrent(m.e)], LAMBDA s2 :
             Bind(arrayRemove(s2.map, s2.current, s.comparer), LAMBDA r :
                 IF r.removed THEN Ret([s2 EXCEPT !.map = r.array], TRUE)
                 ELSE intersectLoop(s2)))))

intersectMoveNext(s) ==
    Bind(Ensure(s.enumerator, s.second), LAMBDA g :
    IF g.err # NoErr THEN Throw(s, g.err)
    ELSE intersectLoop([s EXCEPT !.enumerator = g.e]))

----------------------------------------------------------------------------
(* groupBy: the factory drains the parent into map (serialized key ->      *)
(* elements) and keys (serialized keys in first-seen order)                *)

\* var map = {}: a property that map does not own is looked up in Object.prototype
ObjectPrototype ==
    {"constructor", "toString", "toLocaleString", "valueOf", "hasOwnProperty",
     "isPrototypeOf", "propertyIsEnumerable", "__proto__"}

\* !map[parentSerialized]: an own property holds an array and an inherited one a function
\* or an object, all of them truthy
groupByIsNew(map, parentSerialized) ==
    parentSerialized \notin DOMAIN map /\ parentSerialized \notin ObjectPrototype

RECURSIVE groupByLoop(_, _)
groupByLoop(a, s) ==
    Bind(MoveNext(s.parentEnumerator), LAMBDA m :
    Bind([s EXCEPT !.parentEnumerator = m.e], LAMBDA s1 :
        IF m.err # NoErr THEN Throw(s1, m.err)
        ELSE IF ~m.ret THEN Ret(s1, FALSE)
        ELSE Bind(GetCurrent(m.e), LAMBDA parentCurrent :
             Bind(CallSelector(a.keySelector, parentCurrent, undefined), LAMBDA k :
                 IF k.err # NoErr THEN Throw(s1, k.err) ELSE
                 Bind(CallSerializer(a.keySerializer, k.val), LAMBDA parentSerialized :
                 Bind(groupByIsNew(s1.map, parentSerialized), LAMBDA isNew :
                 Bind(IF isNew
                      THEN [s1 EXCEPT !.map = (parentSerialized :> <<>>) @@ @,
                      !.keys = Append(@, parentSerialized)]
                      ELSE s1, LAMBDA s2 :
                 Bind(CallSelector(a.elementSelector, parentCurrent, undefined), LAMBDA el :
                     IF el.err # NoErr THEN Throw(s2, el.err)
                     \* an inherited property has no push
                     ELSE IF parentSerialized \notin DOMAIN s2.map THEN Throw(s2, TypeError)
                     ELSE groupByLoop(a, [s2 EXCEPT !.map[parentSerialized] = Append(@, el.val)])))))))))

groupByGetEnumerator(a) ==
    Bind(GetEnumerator(a.parent), LAMBDA g :
    IF g.err # NoErr THEN g ELSE
    Bind([op |-> "groupBy", resultSelector |-> a.resultSelector,
         map |-> [k \in {} |-> <<>>], keys |-> <<>>, index |-> 0, value |-> undefined,
         parentEnumerator |-> g.e, calls |-> 0, disposed |-> 0], LAMBDA s0 :
    Bind(groupByLoop(a, s0), LAMBDA r :
    Bind(Dispose(r.e.parentEnumerator), LAMBDA d :
        [e |-> [r.e EXCEPT !.parentEnumerator = d.e], ret |-> TRUE,
         err |-> IF d.err # NoErr THEN d.err ELSE r.err]))))

groupByMoveNext(s) ==
    IF s.index < Len(s.keys)
    THEN Bind(s.keys[s.index + 1], LAMBDA key :
         Bind(enumerableFromArray(s.map[key]), LAMBDA values :
             IF s.resultSelector = nullFn
             THEN Ret([s EXCEPT !.index = @ + 1,
                                !.value = [op |-> "fromArray", array |-> values.array,
                                           key |-> key]], TRUE)
             ELSE Ret([s EXCEPT !.index = @ + 1,
                                !.value = [key |-> key, values |-> values]], TRUE)))
    ELSE Ret(s, FALSE)

----------------------------------------------------------------------------
(* toArray *)

toArray(this) ==
    Bind(drainAndDispose(this), LAMBDA r :
    [value |-> r.results, err |-> r.err, enumerators |-> NonNull(<<r.e>>)])

\* reverse: arr.unshift(enumerator.getCurrent()) for every element, then fromArray(arr)
reverseOf(array) == [k \in 1 .. Len(array) |-> array[Len(array) + 1 - k]]

reverse(this) ==
    Bind(drainAndDispose(this), LAMBDA r :
    [value |-> enumerableFromArray(reverseOf(r.results)), err |-> r.err,
     enumerators |-> NonNull(<<r.e>>)])

----------------------------------------------------------------------------
(* EnumerableSorter.  A sorter is the sequence of its criteria, primary     *)
(* first: the head is this, the tail is this.next.  Array indices are       *)
(* 0-based as in the source; At reads map[i].  selectorCalls counts the     *)
(* invocations of a criterion's keySelector.                                *)

At(array, i) == IF i \in 0 .. Len(array) - 1 THEN array[i + 1] ELSE undefined

EnumerableSorter(keySelector, comparer, descending, next) ==
    <<[keySelector |-> keySelector, comparer |-> comparer, descending |-> descending,
       keys |-> <<>>, selectorCalls |-> 0]>> \o next

\* faulty variant: the chain is linked the other way round: the criterion added last comes first
RECURSIVE getEnumerableSorterSwapped(_, _)
getEnumerableSorterSwapped(this, next) ==
    Bind(next \o EnumerableSorter(this.keySelector, this.comparer, this.descending, <<>>), LAMBDA sorter :
        IF this.parent # Null THEN getEnumerableSorterSwapped(this.parent, sorter) ELSE sorter)

RECURSIVE getEnumerableSorter(_, _)
getEnumerableSorter(this, next) ==
    Bind(EnumerableSorter(this.keySelector, this.comparer, this.descending, next), LAMBDA sorter :
    IF this.parent # Null THEN getEnumerableSorter(this.parent, sorter) ELSE sorter)

\* for (var i = 0; i < count; i++) { this.keys[i] = this.keySelector(elements[i]); }
RECURSIVE computeKeysLoop(_, _, _, _)
computeKeysLoop(this, elements, count, i) ==
    IF i < count
    THEN computeKeysLoop(
             [this EXCEPT !.keys = Append(@, CallSelector(this.keySelector, elements[i + 1],
                                                          undefined).val),
                          !.selectorCalls = @ + 1],
             elements, count, i + 1)
    ELSE this

\* faulty variant: this.next.computeKeys(elements, count) is called inside the for loop,
\* once per element
RECURSIVE computeKeysNested(_, _, _)
computeKeysNested(sorter, elements, count) ==
    Bind(computeKeysLoop([Head(sorter) EXCEPT !.keys = <<>>], elements, count, 0), LAMBDA this :
    Bind(IF Len(sorter) > 1 THEN computeKeysNested(Tail(sorter), elements, count) ELSE <<>>,
         LAMBDA next :
        <<this>> \o [n \in 1 .. Len(next) |->
                        [next[n] EXCEPT !.selectorCalls = IF count = 0 THEN 0 ELSE @ * count]]))

\* this.keys = new Array(count); for (...) { ... }
\* if (this.next) { this.next.computeKeys(elements, count); }
RECURSIVE computeKeys(_, _, _)
computeKeys(sorter, elements, count) ==
    Bind(computeKeysLoop([Head(sorter) EXCEPT !.keys = <<>>], elements, count, 0), LAMBDA this :
        <<this>> \o (IF Len(sorter) > 1 THEN computeKeys(Tail(sorter), elements, count)
                     ELSE <<>>))

\* faulty variant: a tie on the last criterion is reported as 0 instead of index1 - index2
RECURSIVE compareKeysNoIndex(_, _, _)
compareKeysNoIndex(sorter, index1, index2) ==
    Bind(Head(sorter), LAMBDA this :
    Bind(CallComparer(this.comparer, At(this.keys, index1), At(this.keys, index2)), LAMBDA c :
        IF c = 0
        THEN IF Len(sorter) = 1 THEN 0
             ELSE compareKeysNoIndex(Tail(sorter), index1, index2)
        ELSE IF this.descending THEN -c ELSE c))

RECURSIVE compareKeys(_, _, _)
compareKeys(sorter, index1, index2) ==
    Bind(Head(sorter), LAMBDA this :
    Bind(CallComparer(this.comparer, At(this.keys, index1), At(this.keys, index2)), LAMBDA c :
        IF c = 0
        THEN IF Len(sorter) = 1 THEN index1 - index2
             ELSE compareKeys(Tail(sorter), index1, index2)
        ELSE IF this.descending THEN -c ELSE c))

\* The comparisons made by one sort: compared holds every index handed to compareKeys and
\* steps counts the calls.  A sort that has made MaxSortSteps calls is abandoned, so that
\* one that would run for ever is seen to.
NoComparisons == [compared |-> {}, steps |-> 0]
Compared(g, index1, index2) ==
    [compared |-> g.compared \cup {index1, index2}, steps |-> g.steps + 1]

\* while (i < map.length && this.compareKeys(x, map[i]) > 0) i++;
RECURSIVE scanUp(_, _, _, _, _)
scanUp(sorter, map, x, i, g) ==
    IF i < Len(map) /\ g.steps < MaxSortSteps
    THEN IF compareKeys(sorter, x, At(map, i)) > 0
         THEN scanUp(sorter, map, x, i + 1, Compared(g, x, At(map, i)))
         ELSE [i |-> i, g |-> Compared(g, x, At(map, i))]
    ELSE [i |-> i, g |-> g]

\* while (j >= 0 && this.compareKeys(x, map[j]) < 0) j--;
RECURSIVE scanDown(_, _, _, _, _)
scanDown(sorter, map, x, j, g) ==
    IF j >= 0 /\ g.steps < MaxSortSteps
    THEN IF compareKeys(sorter, x, At(map, j)) < 0
         THEN scanDown(sorter, map, x, j - 1, Compared(g, x, At(map, j)))
         ELSE [j |-> j, g |-> Compared(g, x, At(map, j))]
    ELSE [j |-> j, g |-> g]

swap(map, i, j) == [map EXCEPT ![i + 1] = map[j + 1], ![j + 1] = map[i + 1]]

\* the inner do { ... } while (i <= j) of quickSort
RECURSIVE partition(_, _, _, _, _, _)
partition(sorter, map, x, i, j, g) ==
    Bind(scanUp(sorter, map, x, i, g), LAMBDA u :
    Bind(scanDown(sorter, map, x, j, u.g), LAMBDA d :
        IF u.i > d.j THEN [map |-> map, i |-> u.i, j |-> d.j, g |-> d.g]
        ELSE Bind(IF u.i < d.j THEN swap(map, u.i, d.j) ELSE map, LAMBDA map1 :
             IF u.i + 1 <= d.j - 1 THEN partition(sorter, map1, x, u.i + 1, d.j - 1, d.g)
             ELSE [map |-> map1, i |-> u.i + 1, j |-> d.j - 1, g |-> d.g])))

\* faulty variant: after the recursive call the loop goes on with the part just sorted
RECURSIVE quickSortSamePart(_, _, _, _, _)
quickSortSamePart(sorter, map, left, right, g) ==
    IF g.steps >= MaxSortSteps THEN [map |-> map, g |-> g] ELSE
    Bind(At(map, left + ((right - left) \div 2)), LAMBDA x :
    Bind(partition(sorter, map, x, left, right, g), LAMBDA p :
    Bind(p.j - left <= right - p.i, LAMBDA smallerLeft :
    Bind(IF smallerLeft
         THEN IF left < p.j THEN quickSortSamePart(sorter, p.map, left, p.j, p.g)
              ELSE [map |-> p.map, g |-> p.g]
         ELSE IF p.i < right THEN quickSortSamePart(sorter, p.map, p.i, right, p.g)
              ELSE [map |-> p.map, g |-> p.g], LAMBDA r :
    Bind(IF smallerLeft THEN left ELSE p.i, LAMBDA left1 :
    Bind(IF smallerLeft THEN p.j ELSE right, LAMBDA right1 :
        IF left1 < right1 THEN quickSortSamePart(sorter, r.map, left1, right1, r.g)
        ELSE r))))))

\* the outer do { ... } while (left < right): recurse into the smaller part, loop on the other
RECURSIVE quickSort(_, _, _, _, _)
quickSort(sorter, map, left, right, g) ==
    IF g.steps >= MaxSortSteps THEN [map |-> map, g |-> g] ELSE
    Bind(At(map, left + ((right - left) \div 2)), LAMBDA x :
    Bind(partition(sorter, map, x, left, right, g), LAMBDA p :
    Bind(p.j - left <= right - p.i, LAMBDA smallerLeft :
    Bind(IF smallerLeft
         THEN IF left < p.j THEN quickSort(sorter, p.map, left, p.j, p.g)
              ELSE [map |-> p.map, g |-> p.g]
         ELSE IF p.i < right THEN quickSort(sorter, p.map, p.i, right, p.g)
              ELSE [map |-> p.map, g |-> p.g], LAMBDA r :
    Bind(IF smallerLeft THEN p.i ELSE left, LAMBDA left1 :
    Bind(IF smallerLeft THEN right ELSE p.j, LAMBDA right1 :
        IF left1 < right1 THEN quickSort(sorter, r.map, left1, right1, r.g) ELSE r))))))

\* returns the map; sorter is the sorter as computeKeys leaves it
sort(sorter, elements, count) ==
    Bind(computeKeys(sorter, elements, count), LAMBDA computed :
    Bind(quickSort(computed, [i \in 1 .. count |-> i - 1], 0, count - 1, NoComparisons),
         LAMBDA sorted :
        [sorter |-> computed, map |-> sorted.map, comparisons |-> sorted.g]))

----------------------------------------------------------------------------
(* OrderedEnumerable.getEnumerator: buffer the source, sort, walk the map *)

orderedGetEnumerator(this) ==
    Bind(toArray(this.source), LAMBDA b :
    IF b.err # NoErr THEN Throw(Null, b.err) ELSE
    Bind(b.value, LAMBDA buffer :
    Bind(Len(buffer), LAMBDA length :
    Bind(sort(getEnumerableSorter(this, <<>>), buffer, length), LAMBDA sorted :
        Ret([op |-> "ordered", buffer |-> buffer, length |-> length,
             sorter |-> sorted.sorter, map |-> sorted.map, comparisons |-> sorted.comparisons,
             index |-> 0, current |-> undefined,
             sourceEnumerator |-> b.enumerators[1], calls |-> 0, disposed |-> 0], TRUE)))))

orderedMoveNext(s) ==
    IF s.index < s.length
    THEN Ret([s EXCEPT !.current = s.buffer[s.map[s.index + 1] + 1], !.index = @ + 1], TRUE)
    ELSE Ret(s, FALSE)

----------------------------------------------------------------------------
(* Dispatch on the kind of Enumerable / Enumerator.  enumeratorCreate is    *)
(* taken to hand back the moveNext, getCurrent and dispose functions it is  *)
(* given, with a no-op dispose when none is given.                          *)

GetEnumerator(a) ==
    CASE a.op = "fromArray"      -> Ret(fromArrayGetEnumerator(a), TRUE)
      [] a.op = "range"          -> Ret(rangeGetEnumerator(a), TRUE)
      [] a.op = "repeat"         -> Ret(repeatGetEnumerator(a), TRUE)
      [] a.op = "returnValue"    -> Ret(returnValueGetEnumerator(a), TRUE)
      [] a.op = "empty"          -> Ret(emptyGetEnumerator(a), TRUE)
      [] a.op = "select"         -> Ret(selectGetEnumerator(a), TRUE)
      [] a.op = "where"          -> Ret(whereGetEnumerator(a), TRUE)
      [] a.op = "skip"           -> Ret(skipGetEnumerator(a), TRUE)
      [] a.op = "skipWhile"      -> Ret(skipWhileGetEnumerator(a), TRUE)
      [] a.op = "take"           -> Ret(takeGetEnumerator(a), TRUE)
      [] a.op = "takeWhile"      -> Ret(takeWhileGetEnumerator(a), TRUE)
      [] a.op = "distinct"       -> Ret(distinctGetEnumerator(a), TRUE)
      [] a.op = "defaultIfEmpty" -> Ret(defaultIfEmptyGetEnumerator(a), TRUE)
      [] a.op = "zip"            -> Ret(zipGetEnumerator(a), TRUE)
      [] a.op = "selectMany"     -> Ret(selectManyGetEnumerator(a), TRUE)
      [] a.op = "union"          -> Ret(unionGetEnumerator(a), TRUE)
      [] a.op = "except"         -> exceptGetEnumerator(a)
      [] a.op = "intersect"      -> intersectGetEnumerator(a)
      [] a.op = "groupBy"        -> groupByGetEnumerator(a)
      [] a.op = "ordered"        -> orderedGetEnumerator(a)

moveNextBody(s) ==
    CASE s.op = "fromArray"      -> fromArrayMoveNext(s)
      [] s.op = "range"          -> rangeMoveNext(s)
      [] s.op = "repeat"         -> repeatMoveNext(s)
      [] s.op = "returnValue"    -> returnValueMoveNext(s)
      [] s.op = "empty"          -> emptyMoveNext(s)
      [] s.op = "select"         -> selectMoveNext(s)
      [] s.op = "where"          -> whereMoveNext(s)
      [] s.op = "skip"           -> skipMoveNext(s)
      [] s.op = "skipWhile"      -> skipWhileMoveNext(s)
      [] s.op = "take"           -> takeMoveNext(s)
      [] s.op = "takeWhile"      -> takeWhileMoveNext(s)
      [] s.op = "distinct"       -> distinctMoveNext(s)
      [] s.op = "defaultIfEmpty" -> defaultIfEmptyMoveNext(s)
      [] s.op = "zip"            -> zipMoveNext(s)
      [] s.op = "selectMany"     -> selectManyMoveNext(s)
      [] s.op = "union"          -> unionMoveNext(s)
      [] s.op = "except"         -> exceptMoveNext(s)
      [] s.op = "intersect"      -> intersectMoveNext(s)
      [] s.op = "groupBy"        -> groupByMoveNext(s)
      [] s.op = "ordered"        -> orderedMoveNext(s)

\* every moveNext invocation is counted on the enumerator it is made on
MoveNext(s) ==
    Bind(moveNextBody(s), LAMBDA r :
                                [r EXCEPT !.e.calls = @ + 1])

GetCurrent(s) ==
    CASE s.op \in {"fromArray", "repeat", "returnValue", "groupBy"} -> s.value
      [] s.op = "empty" -> undefined    \* throws seqNoElements; never reached after a true moveNext
      [] OTHER -> s.current

\* the dispose function handed to enumeratorCreate; the base sources, groupBy and
\* OrderedEnumerable hand none
disposeBody(s) ==
    CASE s.op \in {"select", "where", "skip", "skipWhile", "take", "takeWhile", "distinct"}
            -> uncheckedDispose(s)
      [] s.op \in {"defaultIfEmpty", "except", "intersect", "union"} -> checkedDispose(s)
      [] s.op = "zip" -> zipDispose(s)
      [] s.op = "selectMany" -> selectManyDispose(s)
      [] OTHER -> Ret(s, FALSE)

\* every dispose invocation is counted on the enumerator it is made on
Dispose(s) ==
    Bind(disposeBody(s), LAMBDA r :
                               [r EXCEPT !.e.disposed = @ + 1])

----------------------------------------------------------------------------
(* The Enumerables the client is given *)

Predicates == {[holds |-> S, throws |-> {}, byIndex |-> FALSE] : S \in SUBSET Values}
Selectors == {[fn |-> f, throws |-> {}] : f \in {"identity", "succ", "addIndex"}}
EqualityComparers == {defaultEqualityComparer, sameParity}

ArraySources == {enumerableFromArray(a) : a \in Arrays(MaxLen)}
\* arrays over two values: the second operand of the two-sequence combinators
PairSources == {enumerableFromArray(a) : a \in UNION {[1 .. k -> {0, MaxVal}] : k \in 0 .. MaxLen}}
Sources ==
    ArraySources
    \cup {enumerableRange(start, count) : start \in 0 .. 1, count \in 0 .. MaxLen}
    \cup {enumerableRepeat(MaxVal, count) : count \in 0 .. MaxLen}
    \cup {returnValue(MaxVal), enumerableEmpty}

Unary(P) ==
    {select(p, f) : p \in P, f \in Selectors}
    \cup {where(p, f) : p \in P, f \in Predicates}
    \cup {skip(p, n) : p \in P, n \in 0 .. MaxLen}
    \cup {skipWhile(p, f) : p \in P, f \in Predicates}
    \cup {take(p, n) : p \in P, n \in 0 .. MaxLen}
    \cup {takeWhile(p, f) : p \in P, f \in Predicates}
    \cup {distinct(p, c) : p \in P, c \in EqualityComparers}
    \cup {defaultIfEmpty(p, 0) : p \in P}

Binary(P, Q) ==
    {zip(p, q, [fn |-> "sum", throws |-> {}]) : p \in P, q \in Q}
    \cup {union(p, q, c) : p \in P, q \in Q, c \in EqualityComparers}
    \cup {except(p, q, c) : p \in P, q \in Q, c \in EqualityComparers}
    \cup {intersect(p, q, c) : p \in P, q \in Q, c \in EqualityComparers}

SelectMany(P) ==
    {selectMany(p, [fn |-> f, throws |-> {}], r) :
        p \in P, f \in {"rangeTo", "twice"}, r \in {nullFn, [fn |-> "sum", throws |-> {}]}}

Ordered(P) ==
    {orderBy(p, [fn |-> "mod2", throws |-> {}], nullComparer) : p \in P}
    \cup {orderByDescending(p, nullFn, nullComparer) : p \in P}

Grouped(P) == {groupBy(p, [fn |-> "mod2", throws |-> {}], nullFn, nullFn, nullFn) : p \in P}

\* the elements of a groupBy are Enumerables: no numeric combinator is put over it
Bases == Sources \cup Ordered(PairSources)

Pipelines ==
    Bases \cup Grouped(ArraySources) \cup Unary(Bases)
    \cup Binary(ArraySources, PairSources) \cup SelectMany(ArraySources)

----------------------------------------------------------------------------
(* The client of one Enumerable: it obtains enumerators and calls moveNext  *)
(* (reading getCurrent after a true result) and dispose on them.            *)

Enumerators == {1, 2}
NoCall == [call |-> "none"]
NoResult == [op |-> "none"]

InitClient(pipelines) ==
    /\ E \in pipelines
    /\ en = [i \in Enumerators |-> Null]
    /\ out = [i \in Enumerators |-> <<>>]
    /\ exhausted = [i \in Enumerators |-> 0]
    /\ revived = [i \in Enumerators |-> FALSE]
    /\ last = NoCall
    /\ ncalls = [i \in Enumerators |-> 0]
    /\ res = NoResult
    /\ arr = <<>>
    /\ rev = Null

\* faulty variant: the Enumerable keeps the enumerator it made first and hands it to every
\* later caller, as that enumerator then stands
DoGetEnumeratorCached(i) ==
    /\ en[i] = Null
    /\ \E g \in {GetEnumerator(E)}, made \in {{j \in Enumerators : en[j] # Null}} :
       /\ g.err = NoErr
       /\ en' = [en EXCEPT ![i] = IF made = {} THEN g.e ELSE en[CHOOSE j \in made : TRUE]]
       /\ last' = [call |-> "getEnumerator", i |-> i, ret |-> TRUE, err |-> g.err]
    /\ UNCHANGED <<E, out, exhausted, revived, ncalls, res, arr, rev>>

\* en[i] = E.getEnumerator()
DoGetEnumerator(i) ==
    /\ en[i] = Null
    /\ \E g \in {GetEnumerator(E)} :
       /\ g.err = NoErr
       /\ en' = [en EXCEPT ![i] = g.e]
       /\ last' = [call |-> "getEnumerator", i |-> i, ret |-> TRUE, err |-> g.err]
    /\ UNCHANGED <<E, out, exhausted, revived, ncalls, res, arr, rev>>

\* en[i].moveNext(), then en[i].getCurrent() when it returned true
DoMoveNext(i) ==
    /\ en[i] # Null
    /\ en[i].disposed = 0
    /\ ncalls[i] < MaxCalls
    /\ \E m \in {MoveNext(en[i])} :
       /\ en' = [en EXCEPT ![i] = m.e]
       /\ out' = [out EXCEPT ![i] = IF m.err = NoErr /\ m.ret
                                    THEN Append(@, GetCurrent(m.e)) ELSE @]
       /\ exhausted' = [exhausted EXCEPT ![i] = IF m.err = NoErr /\ ~m.ret THEN @ + 1 ELSE @]
       /\ revived' = [revived EXCEPT ![i] = @ \/ (exhausted[i] > 0 /\ m.err = NoErr /\ m.ret)]
       /\ last' = [call |-> "moveNext", i |-> i, ret |-> m.ret, err |-> m.err]
    /\ ncalls' = [ncalls EXCEPT ![i] = @ + 1]
    /\ UNCHANGED <<E, res, arr, rev>>

\* en[i].dispose(): the client's last call on en[i]
DoDispose(i) ==
    /\ en[i] # Null
    /\ en[i].disposed = 0
    /\ \E d \in {Dispose(en[i])} :
       /\ en' = [en EXCEPT ![i] = d.e]
       /\ last' = [call |-> "dispose", i |-> i, ret |-> FALSE, err |-> d.err]
    /\ ncalls' = [ncalls EXCEPT ![i] = @ + 1]
    /\ UNCHANGED <<E, out, exhausted, revived, res, arr, rev>>

Init == InitClient(Pipelines)

Next == DoGetEnumerator(1) \/ DoMoveNext(1) \/ DoDispose(1)

Spec == Init /\ [][Next]_vars

(* Two enumerators of one Enumerable built from fromArray / range sources,  *)
(* advanced in any interleaving                                             *)

RestartSources ==
    ArraySources \cup {enumerableRange(start, count) : start \in 0 .. 1, count \in 0 .. MaxLen}

RestartUnary(P) ==
    {select(p, f) : p \in P, f \in Selectors}
    \cup {where(p, f) : p \in P, f \in Predicates}
    \cup {skip(p, n) : p \in P, n \in 0 .. MaxLen}
    \cup {take(p, n) : p \in P, n \in 0 .. MaxLen}
    \cup {distinct(p, c) : p \in P, c \in EqualityComparers}
    \cup Ordered(P)

RestartPipelines ==
    RestartUnary(RestartSources)
    \cup {union(p, q, c) : p \in PairSources, q \in PairSources, c \in EqualityComparers}
    \cup {intersect(p, q, c) : p \in PairSources, q \in PairSources, c \in EqualityComparers}
    \cup SelectMany(PairSources)
    \cup {take(distinct(p, defaultEqualityComparer), 1) : p \in ArraySources}
    \cup {distinct(skip(p, 1), sameParity) : p \in ArraySources}

InitTwo == InitClient(RestartPipelines)

NextTwo == \E i \in Enumerators : DoGetEnumerator(i) \/ DoMoveNext(i)

SpecTwo == InitTwo /\ [][NextTwo]_vars

----------------------------------------------------------------------------
(* Properties of the enumerator protocol *)

CombinatorOps ==
    {"select", "where", "skip", "skipWhile", "take", "takeWhile", "distinct", "zip",
     "selectMany", "union", "except", "intersect", "defaultIfEmpty"}

\* the enumerators s has obtained from its parent Enumerables so far
Obtained(s) ==
    CASE s.op \in {"select", "where", "skip", "skipWhile", "take", "takeWhile", "distinct",
                   "defaultIfEmpty"} -> NonNull(<<s.enumerator>>)
      [] s.op = "zip" -> NonNull(<<s.e1, s.e2>>)
      [] s.op = "selectMany" -> NonNull(<<s.outerEnumerator, s.innerEnumerator>>) \o s.released
      [] s.op = "union" -> NonNull(<<s.enumerator>>) \o s.released
      [] s.op \in {"except", "intersect"} -> NonNull(<<s.firstEnumerator, s.enumerator>>)
      [] s.op = "groupBy" -> <<s.parentEnumerator>>
      [] s.op = "ordered" -> <<s.sourceEnumerator>>
      [] OTHER -> <<>>

IsPrefix(a, b) == Len(a) <= Len(b) /\ \A k \in 1 .. Len(a) : a[k] = b[k]

\* C1: on an enumerator of source.take(n), however often its moveNext is called (also
\* after it has returned false), the parent enumerator's moveNext has been invoked at
\* most n times.
C1_TakeNeverOverPulls ==
    \A i \in Enumerators :
        (E.op = "take" /\ en[i] # Null /\ en[i].enumerator # Null)
            => en[i].enumerator.calls <= E.count

\* take(n), n >= 1, has been called twice after exhaustion and the parent was advanced n times
C1_Witness ==
    /\ E.op = "take" /\ E.count >= 1
    /\ en[1] # Null /\ exhausted[1] >= 2
    /\ en[1].enumerator.calls = E.count

\* the enumerators C3 is about: the base sources, OrderedEnumerable, groupBy and every
\* combinator but takeWhile
C3Ops ==
    {"fromArray", "range", "repeat", "returnValue", "empty", "ordered", "groupBy"}
    \cup (CombinatorOps \ {"takeWhile"})

\* C3: once moveNext of one of these enumerators has returned false, every later
\* moveNext call on it returns false.
C3_ExhaustionIsIdempotent ==
    \A i \in Enumerators : E.op \in C3Ops => ~revived[i]

\* a combinator over a non-empty run has returned false twice in a row
C3_Witness ==
    /\ E.op \in CombinatorOps \ {"takeWhile"}
    /\ exhausted[1] >= 2 /\ Len(out[1]) >= 1
    /\ last.call = "moveNext" /\ ~last.ret

\* C4: once moveNext of a takeWhile enumerator has returned false (parent exhausted or
\* element rejected), every later moveNext call returns false.
C4_TakeWhileStaysExhausted ==
    \A i \in Enumerators : E.op = "takeWhile" => ~revived[i]

\* C5: dispose() called on a combinator's enumerator before any moveNext() raises no error.
C5_DisposeBeforeMoveNext ==
    (last.call = "dispose" /\ E.op \in CombinatorOps /\ en[last.i].calls = 0)
        => last.err = NoErr

\* C6: after getEnumerator() and before the first moveNext(), a combinator's enumerator
\* has obtained no enumerator from (and so made no moveNext call on) a parent Enumerable.
C6_ParentsCreatedLazily ==
    \A i \in Enumerators :
        (E.op \in CombinatorOps /\ en[i] # Null /\ en[i].calls = 0)
            => Obtained(en[i]) = <<>>

----------------------------------------------------------------------------
(* Terminal operators.  Each returns [value, err, enumerators, log]: the    *)
(* value returned (undefined when it throws), the error thrown, the         *)
(* enumerators it obtained (in their final state) and the (element, index)  *)
(* pairs it passed to its callback.                                         *)

nullPredicate == [holds |-> {}, throws |-> {}, byIndex |-> FALSE, absent |-> TRUE]

\* func(accumulate, current, index, this)
CallAccumulator(func, acc, x, index) ==
    IF x \in func.throws THEN CallThrows
    ELSE Call(CASE func.fn = "sum"      -> acc + x
                [] func.fn = "shift"    -> 2 * acc + x
                [] func.fn = "sumIndex" -> acc + index
                [] func.fn = "last"     -> x)

\* an equality comparer handed to a terminal operator: (fn, throws)
CallEqualityT(comparer, a, b) ==
    IF a \in comparer.throws \/ b \in comparer.throws THEN [val |-> FALSE, err |-> CallbackError]
    ELSE Call(CallEquality(comparer.fn, a, b))

Continue(st, e) == [exit |-> "continue", st |-> st, e |-> e, value |-> undefined, err |-> NoErr]
Return(st, e, value) == [exit |-> "return", st |-> st, e |-> e, value |-> value, err |-> NoErr]
Raise(st, e, err) == [exit |-> "throw", st |-> st, e |-> e, value |-> undefined, err |-> err]

Logged(st, x, i) == [st EXCEPT !.log = Append(@, <<x, i>>)]

\* faulty variant: func is handed the element first and the accumulator second
aggregateBodySwapped(args, st, e) ==
    Bind(GetCurrent(e), LAMBDA x :
    Bind(CallAccumulator(args.func, x, st.acc, st.i), LAMBDA v :
    Bind([Logged(st, x, st.i) EXCEPT !.i = @ + 1], LAMBDA st1 :
        IF v.err # NoErr \/ x \in args.func.throws THEN Raise(st1, e, CallbackError)
        ELSE Continue([st1 EXCEPT !.acc = v.val], e))))

\* accumulate = func(accumulate, enumerator.getCurrent(), i++, this);
aggregateBody(args, st, e) ==
    Bind(GetCurrent(e), LAMBDA x :
    Bind(CallAccumulator(args.func, st.acc, x, st.i), LAMBDA v :
    Bind([Logged(st, x, st.i) EXCEPT !.i = @ + 1], LAMBDA st1 :
        IF v.err # NoErr THEN Raise(st1, e, v.err)
        ELSE Continue([st1 EXCEPT !.acc = v.val], e))))

\* if (!predicate.call(thisArg, enumerator.getCurrent(), i++, this)) { return false; }
allBody(args, st, e) ==
    Bind(GetCurrent(e), LAMBDA x :
    Bind(CallPredicate(args.predicate, x, st.i), LAMBDA v :
    Bind([Logged(st, x, st.i) EXCEPT !.i = @ + 1], LAMBDA st1 :
        IF v.err # NoErr THEN Raise(st1, e, v.err)
        ELSE IF ~v.val THEN Return(st1, e, FALSE)
        ELSE Continue(st1, e))))

\* faulty variant: the enumerator is advanced once more before true is returned
anyBodyLookahead(args, st, e) ==
    Bind(GetCurrent(e), LAMBDA x :
    Bind(CallPredicate(args.predicate, x, st.i), LAMBDA v :
    Bind(IF args.predicate = nullPredicate THEN st
         ELSE [Logged(st, x, st.i) EXCEPT !.i = @ + 1], LAMBDA st1 :
        IF v.err # NoErr THEN Raise(st1, e, v.err)
        ELSE IF args.predicate = nullPredicate \/ v.val
             THEN Bind(MoveNext(e), LAMBDA m :
                  IF m.err # NoErr THEN Raise(st1, m.e, m.err) ELSE Return(st1, m.e, TRUE))
        ELSE Continue(st1, e))))

\* if (!predicate || predicate.call(thisArg, enumerator.getCurrent(), i++, this)) { return true; }
anyBody(args, st, e) ==
    IF args.predicate = nullPredicate THEN Return(st, e, TRUE)
    ELSE Bind(GetCurrent(e), LAMBDA x :
         Bind(CallPredicate(args.predicate, x, st.i), LAMBDA v :
         Bind([Logged(st, x, st.i) EXCEPT !.i = @ + 1], LAMBDA st1 :
             IF v.err # NoErr THEN Raise(st1, e, v.err)
             ELSE IF v.val THEN Return(st1, e, TRUE)
             ELSE Continue(st1, e))))

\* count++; sum += enumerator.getCurrent();
averageBody(args, st, e) ==
    Continue([st EXCEPT !.count = @ + 1, !.acc = @ + GetCurrent(e)], e)

\* if (comparer(value, enumerator.getCurrent())) { return true; }
containsBody(args, st, e) ==
    Bind(GetCurrent(e), LAMBDA x :
    Bind(CallEqualityT(args.comparer, args.value, x), LAMBDA v :
    Bind(Logged(st, x, undefined), LAMBDA st1 :
        IF v.err # NoErr THEN Raise(st1, e, v.err)
        ELSE IF v.val THEN Return(st1, e, TRUE)
        ELSE Continue(st1, e))))

\* if (!predicate || predicate.call(thisArg, enumerator.getCurrent(), i++, this)) { c++; }
countBody(args, st, e) ==
    IF args.predicate = nullPredicate THEN Continue([st EXCEPT !.acc = @ + 1], e)
    ELSE Bind(GetCurrent(e), LAMBDA x :
         Bind(CallPredicate(args.predicate, x, st.i), LAMBDA v :
         Bind([Logged(st, x, st.i) EXCEPT !.i = @ + 1], LAMBDA st1 :
             IF v.err # NoErr THEN Raise(st1, e, v.err)
             ELSE IF v.val THEN Continue([st1 EXCEPT !.acc = @ + 1], e)
             ELSE Continue(st1, e))))

\* var current = enumerator.getCurrent(); if (!predicate || predicate(current)) return current;
firstBody(args, st, e) ==
    Bind(GetCurrent(e), LAMBDA x :
    IF args.predicate = nullPredicate THEN Return(st, e, x)
    ELSE Bind(CallPredicate(args.predicate, x, undefined), LAMBDA v :
         Bind(Logged(st, x, undefined), LAMBDA st1 :
             IF v.err # NoErr THEN Raise(st1, e, v.err)
             ELSE IF v.val THEN Return(st1, e, x)
             ELSE Continue(st1, e))))

\* action.call(thisArg, e.getCurrent(), i++, this);
forEachBody(args, st, e) ==
    Bind(GetCurrent(e), LAMBDA x :
    Bind(CallSelector(args.action, x, st.i), LAMBDA v :
    Bind([Logged(st, x, st.i) EXCEPT !.i = @ + 1], LAMBDA st1 :
        IF v.err # NoErr THEN Raise(st1, e, v.err) ELSE Continue(st1, e))))

\* faulty variant: value is assigned only while hasValue is false, so the first match stays
lastBodyKeepsFirst(args, st, e) ==
    Bind(GetCurrent(e), LAMBDA x :
    Bind(CallPredicate(args.predicate, x, undefined), LAMBDA v :
        IF v.err # NoErr THEN Raise(st, e, v.err)
        ELSE IF (args.predicate = nullPredicate \/ v.val) /\ ~st.hasValue
             THEN Continue([st EXCEPT !.hasValue = TRUE, !.acc = x], e)
        ELSE Continue(st, e)))

\* if (!predicate || predicate(current)) { hasValue = true; value = current; }
lastBody(args, st, e) ==
    Bind(GetCurrent(e), LAMBDA x :
    IF args.predicate = nullPredicate
    THEN Continue([st EXCEPT !.hasValue = TRUE, !.acc = x], e)
    ELSE Bind(CallPredicate(args.predicate, x, undefined), LAMBDA v :
         Bind(Logged(st, x, undefined), LAMBDA st1 :
             IF v.err # NoErr THEN Raise(st1, e, v.err)
             ELSE IF v.val THEN Continue([st1 EXCEPT !.hasValue = TRUE, !.acc = x], e)
             ELSE Continue(st1, e))))

\* if (!hasElement) { m = x; hasElement = true; } else { if (x > m) { m = x; } }
maxBody(args, st, e) ==
    Bind(GetCurrent(e), LAMBDA x :
    IF ~st.hasValue THEN Continue([st EXCEPT !.hasValue = TRUE, !.acc = x], e)
    ELSE Continue([st EXCEPT !.acc = IF x > @ THEN x ELSE @], e))

minBody(args, st, e) ==
    Bind(GetCurrent(e), LAMBDA x :
    IF ~st.hasValue THEN Continue([st EXCEPT !.hasValue = TRUE, !.acc = x], e)
    ELSE Continue([st EXCEPT !.acc = IF x < @ THEN x ELSE @], e))

\* faulty variant: current is returned without asking the enumerator for a further element
singleBodyUnchecked(args, st, e) == Return(st, e, GetCurrent(e))

\* var current = enumerator.getCurrent();
\* if (enumerator.moveNext()) { throw new Error(invalidOperation); } return current;
singleBody(args, st, e) ==
    Bind(GetCurrent(e), LAMBDA x :
    Bind(MoveNext(e), LAMBDA m :
        IF m.err # NoErr THEN Raise(st, m.e, m.err)
        ELSE IF m.ret THEN Raise(st, m.e, invalidOperation)
        ELSE Return(st, m.e, x)))

\* s += enumerator.getCurrent();
sumBody(args, st, e) == Continue([st EXCEPT !.acc = @ + GetCurrent(e)], e)

loopBody(op, args, st, e) ==
    CASE op \in {"aggregate", "aggregate1"} -> aggregateBody(args, st, e)
      [] op = "all" -> allBody(args, st, e)
      [] op = "any" -> anyBody(args, st, e)
      [] op = "average" -> averageBody(args, st, e)
      [] op = "contains" -> containsBody(args, st, e)
      [] op = "count" -> countBody(args, st, e)
      [] op \in {"first", "firstOrDefault"} -> firstBody(args, st, e)
      [] op = "forEach" -> forEachBody(args, st, e)
      [] op \in {"last", "lastOrDefault"} -> lastBody(args, st, e)
      [] op = "max" -> maxBody(args, st, e)
      [] op = "min" -> minBody(args, st, e)
      [] op \in {"single", "singleOrDefault"} -> singleBody(args, st, e)
      [] op = "sum" -> sumBody(args, st, e)

\* while (enumerator.moveNext()) { body }
RECURSIVE whileMoveNext(_, _, _, _)
whileMoveNext(op, args, st, e) ==
    Bind(MoveNext(e), LAMBDA m :
    IF m.err # NoErr THEN Raise(st, m.e, m.err)
    ELSE IF ~m.ret THEN [exit |-> "end", st |-> st, e |-> m.e, value |-> undefined,
                         err |-> NoErr]
    ELSE Bind(loopBody(op, args, st, m.e), LAMBDA b :
         IF b.exit = "continue" THEN whileMoveNext(op, args, b.st, b.e) ELSE b))

\* try { ... } finally { enumerator.dispose(); }  where r is the outcome of the try block
tryFinallyDispose(r) ==
    Bind(Dispose(r.e), LAMBDA d :
    IF d.err # NoErr THEN [r EXCEPT !.exit = "throw", !.err = d.err, !.e = d.e]
    ELSE [r EXCEPT !.e = d.e])

NoState == [acc |-> undefined, i |-> 0, hasValue |-> FALSE, count |-> 0, log |-> <<>>]

\* var enumerator = this.getEnumerator(); try { while (enumerator.moveNext()) { ... } }
\* finally { enumerator.dispose(); }
enumerate(op, args, this, st) ==
    Bind(GetEnumerator(this), LAMBDA g :
    IF g.err # NoErr
    THEN [exit |-> "throw", st |-> st, value |-> undefined, err |-> g.err, enumerators |-> <<>>]
    ELSE Bind(tryFinallyDispose(whileMoveNext(op, args, st, g.e)), LAMBDA r :
         [exit |-> r.exit, st |-> r.st, value |-> r.value, err |-> r.err,
          enumerators |-> <<r.e>>]))

Returns(r, value) ==
    [value |-> value, err |-> NoErr, enumerators |-> r.enumerators, log |-> r.st.log]
Throws(r, err) ==
    [value |-> undefined, err |-> err, enumerators |-> r.enumerators, log |-> r.st.log]

aggregate(this, seed, func, resultSelector) ==
    Bind(IF resultSelector = nullFn THEN identity ELSE resultSelector, LAMBDA rs :
    Bind(enumerate("aggregate", [func |-> func], this, [NoState EXCEPT !.acc = seed]), LAMBDA r :
        IF r.exit = "throw" THEN Throws(r, r.err)
        ELSE Bind(CallSelector(rs, r.st.acc, undefined), LAMBDA v :
             IF v.err # NoErr THEN Throws(r, v.err) ELSE Returns(r, v.val))))

aggregate1(this, func) ==
    Bind(GetEnumerator(this), LAMBDA g :
    IF g.err # NoErr
    THEN [value |-> undefined, err |-> g.err, enumerators |-> <<>>, log |-> <<>>] ELSE
    Bind(MoveNext(g.e), LAMBDA m :
    Bind(IF m.err # NoErr THEN Raise(NoState, m.e, m.err)
         ELSE IF ~m.ret THEN Raise(NoState, m.e, seqNoElements)
         ELSE whileMoveNext("aggregate1", [func |-> func],
         [NoState EXCEPT !.acc = GetCurrent(m.e)], m.e), LAMBDA t :
    Bind(tryFinallyDispose(t), LAMBDA f :
    Bind([exit |-> f.exit, st |-> f.st, value |-> f.value, err |-> f.err,
         enumerators |-> <<f.e>>], LAMBDA r :
        IF r.exit = "throw" THEN Throws(r, r.err) ELSE Returns(r, r.st.acc))))))

\* reduce(func, seed): aggregate(seed, func); reduce(func): aggregate1(func)
reduce(this, func, seed) ==
    IF seed # null THEN aggregate(this, seed, func, nullFn) ELSE aggregate1(this, func)

all(this, predicate) ==
    Bind(enumerate("all", [predicate |-> predicate], this, NoState), LAMBDA r :
    IF r.exit = "throw" THEN Throws(r, r.err)
    ELSE IF r.exit = "return" THEN Returns(r, r.value)
    ELSE Returns(r, TRUE))

any(this, predicate) ==
    Bind(enumerate("any", [predicate |-> predicate], this, NoState), LAMBDA r :
    IF r.exit = "throw" THEN Throws(r, r.err)
    ELSE IF r.exit = "return" THEN Returns(r, r.value)
    ELSE Returns(r, FALSE))

contains(this, value, comparer) ==
    Bind(enumerate("contains", [value |-> value, comparer |-> comparer], this, NoState), LAMBDA r :
    IF r.exit = "throw" THEN Throws(r, r.err)
    ELSE IF r.exit = "return" THEN Returns(r, r.value)
    ELSE Returns(r, FALSE))

count(this, predicate) ==
    Bind(enumerate("count", [predicate |-> predicate], this, [NoState EXCEPT !.acc = 0]), LAMBDA r :
    IF r.exit = "throw" THEN Throws(r, r.err) ELSE Returns(r, r.st.acc))

first(this, predicate) ==
    Bind(enumerate("first", [predicate |-> predicate], this, NoState), LAMBDA r :
    IF r.exit = "throw" THEN Throws(r, r.err)
    ELSE IF r.exit = "return" THEN Returns(r, r.value)
    ELSE Throws(r, seqNoElements))

firstOrDefault(this, predicate) ==
    Bind(enumerate("firstOrDefault", [predicate |-> predicate], this, NoState), LAMBDA r :
    IF r.exit = "throw" THEN Throws(r, r.err)
    ELSE IF r.exit = "return" THEN Returns(r, r.value)
    ELSE Returns(r, null))

forEach(this, action) ==
    Bind(enumerate("forEach", [action |-> action], this, NoState), LAMBDA r :
    IF r.exit = "throw" THEN Throws(r, r.err) ELSE Returns(r, undefined))

lastOp(this, predicate) ==
    Bind(enumerate("last", [predicate |-> predicate], this, NoState), LAMBDA r :
    IF r.exit = "throw" THEN Throws(r, r.err)
    ELSE IF r.st.hasValue THEN Returns(r, r.st.acc)
    ELSE Throws(r, seqNoElements))

lastOrDefault(this, predicate) ==
    Bind(enumerate("lastOrDefault", [predicate |-> predicate], this, NoState), LAMBDA r :
    IF r.exit = "throw" THEN Throws(r, r.err)
    ELSE Returns(r, IF r.st.hasValue THEN r.st.acc ELSE null))

single(this, predicate) ==
    Bind(IF predicate # nullPredicate THEN where(this, predicate) ELSE this, LAMBDA src :
    Bind(enumerate("single", <<>>, src, NoState), LAMBDA r :
        IF r.exit = "throw" THEN Throws(r, r.err)
        ELSE IF r.exit = "return" THEN Returns(r, r.value)
        ELSE Throws(r, seqNoElements)))

\* with a predicate this is this.where(predicate).single()
singleOrDefault(this, predicate) ==
    IF predicate # nullPredicate THEN single(where(this, predicate), nullPredicate)
    ELSE Bind(enumerate("singleOrDefault", <<>>, this, NoState), LAMBDA r :
         IF r.exit = "throw" THEN Throws(r, r.err)
         ELSE IF r.exit = "return" THEN Returns(r, r.value)
         ELSE Returns(r, null))

\* with a selector these are this.select(selector).sum() and so on
sum(this, selector) ==
    Bind(IF selector # nullFn THEN select(this, selector) ELSE this, LAMBDA src :
    Bind(enumerate("sum", <<>>, src, [NoState EXCEPT !.acc = 0]), LAMBDA r :
        IF r.exit = "throw" THEN Throws(r, r.err) ELSE Returns(r, r.st.acc)))

max(this, selector) ==
    Bind(IF selector # nullFn THEN select(this, selector) ELSE this, LAMBDA src :
    Bind(enumerate("max", <<>>, src, NoState), LAMBDA r :
        IF r.exit = "throw" THEN Throws(r, r.err)
        ELSE IF ~r.st.hasValue THEN Throws(r, seqNoElements)
        ELSE Returns(r, r.st.acc)))

min(this, selector) ==
    Bind(IF selector # nullFn THEN select(this, selector) ELSE this, LAMBDA src :
    Bind(enumerate("min", <<>>, src, NoState), LAMBDA r :
        IF r.exit = "throw" THEN Throws(r, r.err)
        ELSE IF ~r.st.hasValue THEN Throws(r, seqNoElements)
        ELSE Returns(r, r.st.acc)))

\* sum / count is kept as the pair (sum, count): the quotient need not be an integer
average(this, selector) ==
    Bind(IF selector # nullFn THEN select(this, selector) ELSE this, LAMBDA src :
    Bind(enumerate("average", <<>>, src, [NoState EXCEPT !.acc = 0]), LAMBDA r :
        IF r.exit = "throw" THEN Throws(r, r.err)
        ELSE IF r.st.count = 0 THEN Throws(r, seqNoElements)
        ELSE Returns(r, <<r.st.acc, r.st.count>>)))

\* faulty variant: true is returned when e1 ends, without asking e2 for a further element
RECURSIVE sequenceEqualLoopPrefix(_, _, _)
sequenceEqualLoopPrefix(comparer, e1, e2) ==
    Bind(MoveNext(e1), LAMBDA m1 :
    IF m1.err # NoErr THEN [e1 |-> m1.e, e2 |-> e2, value |-> undefined, err |-> m1.err]
    ELSE IF ~m1.ret THEN [e1 |-> m1.e, e2 |-> e2, value |-> TRUE, err |-> NoErr]
    ELSE Bind(MoveNext(e2), LAMBDA m2 :
         IF m2.err # NoErr THEN [e1 |-> m1.e, e2 |-> m2.e, value |-> undefined, err |-> m2.err]
         ELSE IF ~m2.ret THEN [e1 |-> m1.e, e2 |-> m2.e, value |-> FALSE, err |-> NoErr]
         ELSE Bind(CallEqualityT(comparer, GetCurrent(m1.e), GetCurrent(m2.e)), LAMBDA c :
              IF c.err # NoErr
              THEN [e1 |-> m1.e, e2 |-> m2.e, value |-> undefined, err |-> c.err]
              ELSE IF ~c.val THEN [e1 |-> m1.e, e2 |-> m2.e, value |-> FALSE, err |-> NoErr]
              ELSE sequenceEqualLoopPrefix(comparer, m1.e, m2.e))))

\* while (e1.moveNext()) { if (!e2.moveNext() || !comparer(e1.getCurrent(), e2.getCurrent()))
\* { return false; } }  if (e2.moveNext()) { return false; }  return true;
RECURSIVE sequenceEqualLoop(_, _, _)
sequenceEqualLoop(comparer, e1, e2) ==
    Bind(MoveNext(e1), LAMBDA m1 :
    IF m1.err # NoErr THEN [e1 |-> m1.e, e2 |-> e2, value |-> undefined, err |-> m1.err]
    ELSE IF ~m1.ret
    THEN Bind(MoveNext(e2), LAMBDA m2 :
         [e1 |-> m1.e, e2 |-> m2.e, value |-> ~m2.ret, err |-> m2.err])
    ELSE Bind(MoveNext(e2), LAMBDA m2 :
         IF m2.err # NoErr THEN [e1 |-> m1.e, e2 |-> m2.e, value |-> undefined, err |-> m2.err]
         ELSE IF ~m2.ret THEN [e1 |-> m1.e, e2 |-> m2.e, value |-> FALSE, err |-> NoErr]
         ELSE Bind(CallEqualityT(comparer, GetCurrent(m1.e), GetCurrent(m2.e)), LAMBDA c :
              IF c.err # NoErr
              THEN [e1 |-> m1.e, e2 |-> m2.e, value |-> undefined, err |-> c.err]
              ELSE IF ~c.val THEN [e1 |-> m1.e, e2 |-> m2.e, value |-> FALSE, err |-> NoErr]
              ELSE sequenceEqualLoop(comparer, m1.e, m2.e))))

\* finally { e1.dispose(); e2.dispose(); }
sequenceEqual(this, second, comparer) ==
    Bind(GetEnumerator(this), LAMBDA g1 :
    IF g1.err # NoErr
    THEN [value |-> undefined, err |-> g1.err, enumerators |-> <<>>, log |-> <<>>] ELSE
    Bind(GetEnumerator(second), LAMBDA g2 :
    IF g2.err # NoErr
    THEN [value |-> undefined, err |-> g2.err, enumerators |-> <<g1.e>>, log |-> <<>>] ELSE
    Bind(sequenceEqualLoop(comparer, g1.e, g2.e), LAMBDA r :
    Bind(Dispose(r.e1), LAMBDA d1 :
        IF d1.err # NoErr
        THEN [value |-> undefined, err |-> d1.err, enumerators |-> <<d1.e, r.e2>>, log |-> <<>>]
        ELSE Bind(Dispose(r.e2), LAMBDA d2 :
             [value |-> IF d2.err # NoErr \/ r.err # NoErr THEN undefined ELSE r.value,
              err |-> IF d2.err # NoErr THEN d2.err ELSE r.err,
              enumerators |-> <<d1.e, d2.e>>, log |-> <<>>])))))

----------------------------------------------------------------------------
(* The caller of the terminal operators: each call runs one operator on E   *)
(* to its end and leaves the outcome in res.                                *)

ThrowSets == {{}, {0}, {MaxVal}}
TermPredicates ==
    {[holds |-> S, throws |-> T, byIndex |-> FALSE] : S \in SUBSET Values, T \in ThrowSets}
OptPredicates == TermPredicates \cup {nullPredicate}
TermSelectors == {[fn |-> "succ", throws |-> T] : T \in ThrowSets}
OptSelectors == TermSelectors \cup {nullFn}
Accumulators ==
    {[fn |-> f, throws |-> T] : f \in {"sum", "shift", "sumIndex"}, T \in ThrowSets}
TermComparers ==
    {[fn |-> f, throws |-> T] : f \in EqualityComparers, T \in ThrowSets}

\* a source whose getEnumerator() runs a callback: orderBy sorts what
\* this.source.toArray() returns, here of a where whose predicate throws on 0
ThrowingFactories ==
    {orderBy(where(p, [holds |-> Values, throws |-> {0}, byIndex |-> FALSE]), nullFn, nullComparer) :
        p \in PairSources}

TermSources ==
    Sources \cup ThrowingFactories
    \cup {select(p, [fn |-> "succ", throws |-> {}]) : p \in PairSources}

InitTerm == InitClient(TermSources)

\* what a call leaves behind: the operator, its arguments and what it did
Outcome(op, args, r) ==
    [op |-> op, args |-> args, value |-> r.value, err |-> r.err,
     enumerators |-> r.enumerators, log |-> r.log]

\* the operators leave E as it is: one call per behaviour covers every call
Called(op, args, r) ==
    /\ res = NoResult
    /\ res' = Outcome(op, args, r)
    /\ last' = [call |-> op]
    /\ UNCHANGED <<E, en, out, exhausted, revived, ncalls, arr, rev>>

DoToArray ==
    Called("toArray", <<>>, toArray(E) @@ [log |-> <<>>])
DoForEach == \E f \in TermSelectors : Called("forEach", [action |-> f], forEach(E, f))
DoAggregate ==
    \/ \E f \in Accumulators, rs \in OptSelectors :
          Called("aggregate", [seed |-> 0, func |-> f, resultSelector |-> rs],
                 aggregate(E, 0, f, rs))
    \/ \E f \in Accumulators :
          Called("aggregate", [func |-> f], aggregate1(E, f))
DoReduce ==
    \E f \in Accumulators, seed \in {null, 0} :
        Called("reduce", [func |-> f, seed |-> seed], reduce(E, f, seed))
DoAll == \E f \in TermPredicates : Called("all", [predicate |-> f], all(E, f))
DoAny == \E f \in OptPredicates : Called("any", [predicate |-> f], any(E, f))
DoCount == \E f \in OptPredicates : Called("count", [predicate |-> f], count(E, f))
DoContains ==
    \E v \in Values, c \in TermComparers :
        Called("contains", [value |-> v, comparer |-> c], contains(E, v, c))
DoFirst == \E f \in OptPredicates : Called("first", [predicate |-> f], first(E, f))
DoFirstOrDefault ==
    \E f \in OptPredicates :
        Called("firstOrDefault", [predicate |-> f], firstOrDefault(E, f))
DoLast == \E f \in OptPredicates : Called("last", [predicate |-> f], lastOp(E, f))
DoLastOrDefault ==
    \E f \in OptPredicates : Called("lastOrDefault", [predicate |-> f], lastOrDefault(E, f))
DoSingle == \E f \in OptPredicates : Called("single", [predicate |-> f], single(E, f))
DoSingleOrDefault ==
    \E f \in OptPredicates :
        Called("singleOrDefault", [predicate |-> f], singleOrDefault(E, f))
DoSum == \E f \in OptSelectors : Called("sum", [selector |-> f], sum(E, f))
DoMin == \E f \in OptSelectors : Called("min", [selector |-> f], min(E, f))
DoMax == \E f \in OptSelectors : Called("max", [selector |-> f], max(E, f))
DoAverage == \E f \in OptSelectors : Called("average", [selector |-> f], average(E, f))
DoSequenceEqual ==
    \E second \in PairSources \cup ThrowingFactories, c \in TermComparers :
        Called("sequenceEqual", [second |-> second, comparer |-> c],
               sequenceEqual(E, second, c))

NextTerm ==
    \/ DoToArray \/ DoForEach \/ DoAggregate \/ DoReduce \/ DoAll \/ DoAny \/ DoCount
    \/ DoContains \/ DoFirst \/ DoFirstOrDefault \/ DoLast \/ DoLastOrDefault
    \/ DoSingle \/ DoSingleOrDefault \/ DoSum \/ DoMin \/ DoMax \/ DoAverage
    \/ DoSequenceEqual

SpecTerm == InitTerm /\ [][NextTerm]_vars

\* C2: every terminal operator asks each of its sequences for one enumerator and, however
\* it is left (exhaustion, early return, EmptySequence / InvalidOperation, a callback that
\* throws), has called dispose exactly once on every enumerator it obtained; sequenceEqual
\* does so for both of its enumerators.
C2_TerminalDisposesOnce ==
    res # NoResult =>
        LET n == IF res.op = "sequenceEqual" THEN 2 ELSE 1 IN
        /\ Len(res.enumerators) <= n
        /\ res.err = NoErr => Len(res.enumerators) = n
        /\ \A k \in 1 .. Len(res.enumerators) : res.enumerators[k].disposed = 1

----------------------------------------------------------------------------
(* What the terminal operators are expected to compute, stated over the     *)
(* elements of E as toArray() collects them.                                *)

ElementsOf(a) == toArray(a).value

\* E can be enumerated to its end, and res is the outcome of operator op on it
Ran(op) == res # NoResult /\ res.op = op /\ toArray(E).err = NoErr

Qualifies(predicate, x) == predicate = nullPredicate \/ x \in predicate.holds
Qualifying(seq, predicate) == SelectSeq(seq, LAMBDA x : Qualifies(predicate, x))
NeverThrows(f, seq) == \A k \in 1 .. Len(seq) : seq[k] \notin f.throws

\* C14: single returns the qualifying element when exactly one element qualifies, signals
\* EmptySequence when none does and InvalidOperation when more than one does, with and
\* without a predicate.
C14_Single ==
    (Ran("single") /\ NeverThrows(res.args.predicate, ElementsOf(E))) =>
        LET q == Qualifying(ElementsOf(E), res.args.predicate) IN
        /\ Len(q) = 1 => res.err = NoErr /\ res.value = q[1]
        /\ Len(q) = 0 => res.err = seqNoElements
        /\ Len(q) > 1 => res.err = invalidOperation

\* single(predicate) returned the second of two elements, the only one that qualifies
C14_Witness ==
    /\ Ran("single") /\ res.args.predicate # nullPredicate
    /\ NeverThrows(res.args.predicate, ElementsOf(E))
    /\ Len(ElementsOf(E)) = 2
    /\ ~Qualifies(res.args.predicate, ElementsOf(E)[1])
    /\ res.err = NoErr /\ res.value = ElementsOf(E)[2]

\* C15: singleOrDefault returns null, and signals nothing, when no element qualifies,
\* returns the element when exactly one qualifies and signals InvalidOperation when more
\* than one does, with and without a predicate.
C15_SingleOrDefault ==
    (Ran("singleOrDefault") /\ NeverThrows(res.args.predicate, ElementsOf(E))) =>
        LET q == Qualifying(ElementsOf(E), res.args.predicate) IN
        /\ Len(q) = 1 => res.err = NoErr /\ res.value = q[1]
        /\ Len(q) = 0 => res.err = NoErr /\ res.value = null
        /\ Len(q) > 1 => res.err = invalidOperation

\* C16: first returns the earliest qualifying element and last the latest; when none
\* qualifies first and last signal EmptySequence, and firstOrDefault and lastOrDefault
\* return null and signal nothing; with and without a predicate.
C16_FirstAndLast ==
    \A op \in {"first", "firstOrDefault", "last", "lastOrDefault"} :
        (Ran(op) /\ NeverThrows(res.args.predicate, ElementsOf(E))) =>
            LET q == Qualifying(ElementsOf(E), res.args.predicate) IN
            IF Len(q) > 0
            THEN /\ res.err = NoErr
                 /\ res.value = IF op \in {"first", "firstOrDefault"} THEN q[1] ELSE q[Len(q)]
            ELSE IF op \in {"first", "last"}
                 THEN res.err = seqNoElements
                 ELSE res.err = NoErr /\ res.value = null

\* last(predicate) returned the second of two different qualifying elements
C16_Witness ==
    /\ Ran("last") /\ res.args.predicate # nullPredicate
    /\ NeverThrows(res.args.predicate, ElementsOf(E))
    /\ Len(Qualifying(ElementsOf(E), res.args.predicate)) = 2
    /\ ElementsOf(E)[1] # ElementsOf(E)[2]
    /\ res.err = NoErr /\ res.value = ElementsOf(E)[2]

\* func applied from the left: func(... func(func(acc, seq[1]), seq[2]) ..., seq[n]), for
\* a func that computes from the accumulator and the element
RECURSIVE FoldLeft(_, _, _)
FoldLeft(func, acc, seq) ==
    IF seq = <<>> THEN acc
    ELSE FoldLeft(func, CallAccumulator(func, acc, Head(seq), undefined).val, Tail(seq))

IgnoresIndex(func) == func.fn \in {"sum", "shift", "last"}

\* C17: aggregate(seed, func, resultSelector) returns resultSelector of the left fold of
\* func over the source from seed (of seed itself for an empty source); aggregate(func)
\* signals EmptySequence on an empty source and otherwise returns the left fold of func
\* over the rest of the source from its first element.
C17_AggregateFoldsLeft ==
    (Ran("aggregate") /\ IgnoresIndex(res.args.func)) =>
        LET seq == ElementsOf(E)
            func == res.args.func
        IN  IF "seed" \in DOMAIN res.args
            THEN LET folded == FoldLeft(func, res.args.seed, seq)
                     rs == IF res.args.resultSelector = nullFn THEN identity
                           ELSE res.args.resultSelector
                 IN  (NeverThrows(func, seq) /\ folded \notin rs.throws) =>
                        /\ res.err = NoErr
                        /\ res.value = CallSelector(rs, folded, undefined).val
            ELSE IF seq = <<>> THEN res.err = seqNoElements
            ELSE NeverThrows(func, Tail(seq)) =>
                    /\ res.err = NoErr
                    /\ res.value = FoldLeft(func, Head(seq), Tail(seq))

\* aggregate(seed, func, resultSelector) folded two different elements with a func for
\* which the order matters and returned
C17_Witness ==
    /\ Ran("aggregate") /\ "seed" \in DOMAIN res.args
    /\ res.args.func.fn = "shift" /\ res.args.resultSelector # nullFn
    /\ Len(ElementsOf(E)) = 2 /\ ElementsOf(E)[1] # ElementsOf(E)[2]
    /\ res.err = NoErr
    /\ res.value = 2 * (2 * res.args.seed + ElementsOf(E)[1]) + ElementsOf(E)[2] + 1

\* C18: whenever reduce / aggregate calls the accumulator function, with or without an
\* initial value, the index it passes is the zero-based position in the sequence of the
\* element it passes in the same call.
C18_AccumulatorIndexIsPosition ==
    \A op \in {"aggregate", "reduce"} :
        Ran(op) =>
            LET seeded == "seed" \in DOMAIN res.args /\ res.args.seed # null
                from == IF seeded THEN 1 ELSE 2     \* the element of the first call
            IN  \A k \in 1 .. Len(res.log) :
                    /\ res.log[k][1] = ElementsOf(E)[from + k - 1]
                    /\ res.log[k][2] = (from + k - 1) - 1

\* the position (from 1) of the first element of seq in S, Len(seq) + 1 when there is none
FirstIn(seq, S) ==
    IF \E k \in 1 .. Len(seq) : seq[k] \in S
    THEN CHOOSE k \in 1 .. Len(seq) : seq[k] \in S /\ \A j \in 1 .. k - 1 : seq[j] \notin S
    ELSE Len(seq) + 1

\* the (element, index) pairs of the first n elements of seq
FirstCalls(seq, n) == [k \in 1 .. n |-> <<seq[k], k - 1>>]

\* C19: any() without a predicate calls moveNext on the source's enumerator exactly once;
\* any(p) calls moveNext and p for the elements up to the first one that satisfies p and
\* for none after it, all(p) for those up to the first one that fails p and for none
\* after it; any returns true iff some element qualifies, all iff every element does.
C19_AnyAllShortCircuit ==
    /\ (Ran("any") /\ res.args.predicate = nullPredicate) =>
          /\ res.err = NoErr /\ res.value = (ElementsOf(E) # <<>>)
          /\ res.enumerators[1].calls = 1
          /\ res.log = <<>>
    /\ (/\ Ran("any") /\ res.args.predicate # nullPredicate
        /\ NeverThrows(res.args.predicate, ElementsOf(E))) =>
          LET seq == ElementsOf(E)
              n == FirstIn(seq, res.args.predicate.holds)
          IN  /\ res.err = NoErr /\ res.value = (n <= Len(seq))
              /\ res.enumerators[1].calls = n
              /\ res.log = FirstCalls(seq, IF n <= Len(seq) THEN n ELSE Len(seq))
    /\ (Ran("all") /\ NeverThrows(res.args.predicate, ElementsOf(E))) =>
          LET seq == ElementsOf(E)
              n == FirstIn(seq, {seq[k] : k \in 1 .. Len(seq)} \ res.args.predicate.holds)
          IN  /\ res.err = NoErr /\ res.value = (n > Len(seq))
              /\ res.enumerators[1].calls = n
              /\ res.log = FirstCalls(seq, IF n <= Len(seq) THEN n ELSE Len(seq))

\* any(p) returned true at the first of two elements, the second of which p rejects
C19_Witness ==
    /\ Ran("any") /\ res.args.predicate # nullPredicate
    /\ NeverThrows(res.args.predicate, ElementsOf(E))
    /\ Len(ElementsOf(E)) = 2
    /\ Qualifies(res.args.predicate, ElementsOf(E)[1])
    /\ ~Qualifies(res.args.predicate, ElementsOf(E)[2])
    /\ res.value = TRUE /\ res.enumerators[1].calls = 1 /\ Len(res.log) = 1

\* the first position at which a and b differ under comparer, or at which one of them
\* has ended: the elements before it match pairwise
FirstDifference(a, b, comparer) ==
    CHOOSE n \in 1 .. Len(a) + 1 :
        /\ \A k \in 1 .. n - 1 : k <= Len(b) /\ CallEquality(comparer.fn, a[k], b[k])
        /\ n > Len(a) \/ n > Len(b) \/ ~CallEquality(comparer.fn, a[n], b[n])

\* C20: A.sequenceEqual(B, comparer) returns true iff A and B have the same length and the
\* comparer holds at every position; it returns false at the first position at which the
\* elements differ or one sequence has ended, advancing neither enumerator further.
C20_SequenceEqual ==
    (/\ Ran("sequenceEqual")
     /\ toArray(res.args.second).err = NoErr
     /\ NeverThrows(res.args.comparer, ElementsOf(E) \o ElementsOf(res.args.second))) =>
        LET a == ElementsOf(E)
            b == ElementsOf(res.args.second)
            n == FirstDifference(a, b, res.args.comparer)
        IN  /\ res.err = NoErr
            /\ res.value = (/\ Len(a) = Len(b)
                            /\ \A k \in 1 .. Len(a) :
                                  CallEquality(res.args.comparer.fn, a[k], b[k]))
            /\ res.enumerators[1].calls = n
            /\ res.enumerators[2].calls = n

\* a sequence of one element was compared with one of two whose first element is another
\* value that matches under the comparer: false was returned when the shorter one ended
C20_Witness ==
    /\ Ran("sequenceEqual")
    /\ toArray(res.args.second).err = NoErr
    /\ NeverThrows(res.args.comparer, ElementsOf(E) \o ElementsOf(res.args.second))
    /\ Len(ElementsOf(E)) = 1 /\ Len(ElementsOf(res.args.second)) = 2
    /\ ElementsOf(E)[1] # ElementsOf(res.args.second)[1]
    /\ CallEquality(res.args.comparer.fn, ElementsOf(E)[1], ElementsOf(res.args.second)[1])
    /\ res.value = FALSE /\ res.enumerators[1].calls = 2

----------------------------------------------------------------------------
(* reverse over a source whose backing array the caller goes on changing:   *)
(* fromArray keeps a reference to the array, so the source is               *)
(* enumerableFromArray(arr) with arr as it is when it is enumerated (E is   *)
(* that source before the first push).                                      *)

\* the array starts empty and the caller pushes onto it
InitReverse == InitClient({enumerableFromArray(<<>>)})

\* array.push(v)
DoPush(v) ==
    /\ Len(arr) <= MaxLen
    /\ arr' = Append(arr, v)
    /\ last' = [call |-> "push"]
    /\ UNCHANGED <<E, en, out, exhausted, revived, ncalls, res, rev>>

\* rev = Enumerable.fromArray(array).reverse()
DoReverse ==
    /\ rev = Null
    /\ \E r \in {reverse(enumerableFromArray(arr))} :
       /\ r.err = NoErr
       /\ rev' = r.value
       /\ last' = [call |-> "reverse", enumerators |-> r.enumerators]
    /\ UNCHANGED <<E, en, out, exhausted, revived, ncalls, res, arr>>

\* rev.toArray()
DoEnumerateReversed ==
    /\ rev # Null
    /\ \E r \in {toArray(rev)} :
       /\ res' = Outcome("toArray", <<>>, r @@ [log |-> <<>>])
       /\ last' = [call |-> "toArray"]
    /\ UNCHANGED <<E, en, out, exhausted, revived, ncalls, arr, rev>>

NextReverse == (\E v \in Values : DoPush(v)) \/ DoReverse \/ DoEnumerateReversed

SpecReverse == InitReverse /\ [][NextReverse]_vars

\* C7: reverse() obtains no enumerator from its source (the source is enumerated only
\* when the result is), and an enumeration of the result yields the source, as it is at
\* that enumeration, in reverse.
C7_ReverseIsDeferred ==
    /\ last.call = "reverse" => last.enumerators = <<>>
    /\ last.call = "toArray" => res.value = reverseOf(arr)

----------------------------------------------------------------------------
(* Sorting: one enumerator of an OrderedEnumerable chain *)

KeySelectors == {[fn |-> f, throws |-> {}] : f \in {"identity", "mod2", "div2"}}
SortSources == {enumerableFromArray(a) : a \in Arrays(MaxSortLen)}

OrderedRoots(P) ==
    {orderBy(p, k, c) : p \in P, k \in KeySelectors, c \in {nullComparer, reverseComparer}}
    \cup {orderByDescending(p, k, nullComparer) : p \in P, k \in KeySelectors}

SortChains ==
    LET roots == OrderedRoots(SortSources)
        comparers == {nullComparer, reverseComparer}
        twoKeys ==
            {thenBy(o, k, c) : o \in roots, k \in KeySelectors, c \in comparers}
            \cup {thenByDescending(o, k, c) : o \in roots, k \in KeySelectors, c \in comparers}
    IN  roots \cup twoKeys
        \cup {thenBy(o, [fn |-> "identity", throws |-> {}], nullComparer) :
                o \in {t \in twoKeys : /\ t.keySelector.fn = "mod2"
                                       /\ t.parent.keySelector.fn = "div2"
                                       /\ t.comparer = defaultComparer}}

InitSort == InitClient(SortChains)

NextSort == DoGetEnumerator(1) \/ DoMoveNext(1)

SpecSort == InitSort /\ [][NextSort]_vars

\* the criteria of a chain, the one given to orderBy / orderByDescending first
RECURSIVE Criteria(_)
Criteria(o) == IF o.parent = Null THEN <<o>> ELSE Append(Criteria(o.parent), o)

KeyOf(criterion, x) == CallSelector(criterion.keySelector, x, undefined).val

\* a and b have equal keys under every criterion of the chain
TiedEverywhere(o, a, b) ==
    \A n \in 1 .. Len(Criteria(o)) : KeyOf(Criteria(o)[n], a) = KeyOf(Criteria(o)[n], b)

IsPermutation(map, n) ==
    /\ Len(map) = n
    /\ \A x \in 0 .. n - 1 : \E k \in 1 .. n : map[k] = x
    
\* what the enumerator yields: buffer[map[k]] for increasing k
SortedOutput(s) == [k \in 1 .. s.length |-> s.buffer[s.map[k] + 1]]

\* C9: two elements whose keys are equal under every criterion of the chain appear in
\* the sorted output in the order they have in the source.
C9_SortIsStable ==
    en[1] # Null =>
        LET s == en[1] IN
        /\ IsPermutation(s.map, Len(E.source.array))
        /\ s.buffer = E.source.array
        /\ \A p, q \in 1 .. s.length :
              (p < q /\ TiedEverywhere(E, s.buffer[s.map[p] + 1], s.buffer[s.map[q] + 1]))
                  => s.map[p] < s.map[q]
        /\ IsPrefix(out[1], SortedOutput(s))
        /\ exhausted[1] > 0 => out[1] = SortedOutput(s)

\* a chain with a descending criterion sorted three elements, two of them distinct
\* elements tied on every key, and was enumerated to the end
C9_Witness ==
    /\ en[1] # Null /\ exhausted[1] > 0
    /\ E.parent # Null /\ E.parent.descending
    /\ \E p, q \in 1 .. Len(E.source.array) :
          /\ p < q /\ E.source.array[p] # E.source.array[q]
          /\ TiedEverywhere(E, E.source.array[p], E.source.array[q])
    /\ Len(E.source.array) >= 3

\* S.orderBy(k1).thenBy(k2) or S.orderByDescending(k1).thenBy(k2), default comparer
IsTwoKeyChain(o) ==
    /\ o.parent # Null /\ o.parent.parent = Null
    /\ o.comparer = defaultComparer /\ o.parent.comparer = defaultComparer

\* C10: the output of S.orderBy(k1).thenBy(k2) is a permutation of S in which a before b
\* implies k1(a) < k1(b), or k1(a) = k1(b) and k2(a) <= k2(b); after orderByDescending
\* the k1 comparison is reversed.
C10_PrimaryKeyFirst ==
    (IsTwoKeyChain(E) /\ en[1] # Null) =>
        LET s == en[1]
            k1(x) == KeyOf(E.parent, x)
            k2(x) == KeyOf(E, x)
        IN  /\ IsPermutation(s.map, Len(E.source.array))
            /\ s.buffer = E.source.array
            /\ \A p, q \in 1 .. s.length :
                  p < q =>
                    LET a == s.buffer[s.map[p] + 1]
                        b == s.buffer[s.map[q] + 1]
                    IN  \/ IF E.parent.descending THEN k1(a) > k1(b) ELSE k1(a) < k1(b)
                        \/ k1(a) = k1(b) /\ k2(a) <= k2(b)
            /\ IsPrefix(out[1], SortedOutput(s))
            /\ exhausted[1] > 0 => out[1] = SortedOutput(s)

\* a two-key chain was enumerated to the end over a source in which the second key
\* decides the order of two elements and the first key that of two others
C10_Witness ==
    /\ IsTwoKeyChain(E) /\ en[1] # Null /\ exhausted[1] > 0
    /\ Len(out[1]) >= 3
    /\ out[1] # E.source.array
    /\ \E p, q \in 1 .. Len(out[1]) :
          /\ KeyOf(E.parent, out[1][p]) = KeyOf(E.parent, out[1][q])
          /\ KeyOf(E, out[1][p]) < KeyOf(E, out[1][q])
    /\ \E p, q \in 1 .. Len(out[1]) : KeyOf(E.parent, out[1][p]) < KeyOf(E.parent, out[1][q])

\* the comparer a criterion uses when c was handed to the method that made it
ComparerInUse(c) == IF c = nullComparer THEN defaultComparer ELSE c

\* C11: in the output of S.orderBy(k1).thenByDescending(k2, c), of two elements with equal
\* k1 the one that comes first has the greater or equal k2 under the comparer in use.
C11_ThenByDescendingOrders ==
    \A k2 \in KeySelectors, c \in {nullComparer, reverseComparer} :
        (/\ en[1] # Null
         /\ E.parent # Null /\ E.parent.parent = Null
         /\ E = thenByDescending(E.parent, k2, c)) =>
            \A p, q \in 1 .. en[1].length :
                (/\ p < q
                 /\ KeyOf(E.parent, SortedOutput(en[1])[p]) = KeyOf(E.parent, SortedOutput(en[1])[q]))
                    => CallComparer(ComparerInUse(c), KeyOf(E, SortedOutput(en[1])[p]),
                                    KeyOf(E, SortedOutput(en[1])[q])) >= 0

\* C12: in the output of S.orderBy(k1).thenBy(k2, c) with a comparer c handed in, of two
\* elements with equal k1 the one that comes first is not greater under c.
C12_ThenByUsesComparer ==
    \A k2 \in KeySelectors, c \in {reverseComparer} :
        (/\ en[1] # Null
         /\ E.parent # Null /\ E.parent.parent = Null
         /\ E = thenBy(E.parent, k2, c)) =>
            \A p, q \in 1 .. en[1].length :
                (/\ p < q
                 /\ KeyOf(E.parent, SortedOutput(en[1])[p]) = KeyOf(E.parent, SortedOutput(en[1])[q]))
                    => CallComparer(c, KeyOf(E, SortedOutput(en[1])[p]),
                                    KeyOf(E, SortedOutput(en[1])[q])) <= 0

\* C13: for one getEnumerator() of a chain over n buffered elements, every criterion's
\* keySelector has been invoked exactly n times, once per element, however many
\* comparisons the sort made and however far the enumerator has been advanced.
C13_KeySelectorOncePerElement ==
    en[1] # Null =>
        /\ en[1].length = Len(E.source.array)
        /\ Len(en[1].sorter) = Len(Criteria(E))
        /\ \A n \in 1 .. Len(en[1].sorter) :
              /\ en[1].sorter[n].selectorCalls = en[1].length
              /\ en[1].sorter[n].keySelector = Criteria(E)[n].keySelector
              /\ en[1].sorter[n].keys =
                    [i \in 1 .. en[1].length |-> KeyOf(Criteria(E)[n], en[1].buffer[i])]

\* a chain of two or more criteria sorted three or more elements into another order than
\* the source's, and the enumerator was advanced to the end
C13_Witness ==
    /\ en[1] # Null /\ exhausted[1] > 0
    /\ Len(en[1].sorter) >= 2
    /\ en[1].length >= 3
    /\ out[1] = SortedOutput(en[1]) /\ out[1] # E.source.array

----------------------------------------------------------------------------
(* Combinators driven to their end: E is one combinator over array sources  *)
(* and the caller runs toArray() or forEach(action) on it.                  *)

MaxPipeLen == 3     \* longest array under a combinator that is driven to its end

PipeArrays == Arrays(MaxPipeLen)
\* arrays over two values
PairArrays == UNION {[1 .. k -> {0, MaxVal}] : k \in 0 .. MaxPipeLen}

\* predicates of the element and predicates of the index
PipePredicates ==
    {[holds |-> S, throws |-> {}, byIndex |-> b] : S \in SUBSET Values, b \in BOOLEAN}

WherePipes ==
    {where(enumerableFromArray(a), f) : a \in PipeArrays, f \in PipePredicates}
    \cup {where(select(enumerableFromArray(a), [fn |-> "succ", throws |-> {}]), f) :
            a \in PairArrays, f \in PipePredicates}

DistinctPipes ==
    {distinct(enumerableFromArray(a), c) : a \in PipeArrays, c \in EqualityComparers}

ExceptPipes ==
    {except(enumerableFromArray(a), enumerableFromArray(b), c) :
        a \in PipeArrays, b \in PairArrays, c \in EqualityComparers}

IntersectPipes ==
    {intersect(enumerableFromArray(a), enumerableFromArray(b), c) :
        a \in PipeArrays, b \in PairArrays, c \in EqualityComparers}

MaxArgs == 2     \* most sequences handed to concat

\* right-hand sides of zip that are themselves lazy combinators
LazyRights ==
    {select(q, [fn |-> "succ", throws |-> {}]) : q \in PairSources}
    \cup {where(q, [holds |-> {0}, throws |-> {}, byIndex |-> FALSE]) : q \in PairSources}
    \cup {skip(q, 1) : q \in PairSources}
    \cup {take(q, 1) : q \in PairSources}
ZipPipes ==
    {zip(p, q, [fn |-> "sum", throws |-> {}]) : p \in ArraySources, q \in LazyRights}

\* source.select(f).where(p) with callbacks that throw on some element
ThrowingSelectors == {[fn |-> g, throws |-> T] : g \in {"identity", "succ"}, T \in ThrowSets}
ThrowingPredicates ==
    {[holds |-> S, throws |-> T, byIndex |-> FALSE] : S \in {Values, {MaxVal}}, T \in ThrowSets}
SelectWherePipes ==
    {where(select(p, f), g) : p \in ArraySources, f \in ThrowingSelectors, g \in ThrowingPredicates}

SkipWhilePipes == {skipWhile(enumerableFromArray(a), f) : a \in PipeArrays, f \in Predicates}

PipeSources ==
    ArraySources \cup WherePipes \cup DistinctPipes \cup ExceptPipes \cup IntersectPipes
    \cup ZipPipes \cup SelectWherePipes \cup SkipWhilePipes

InitPipe == InitClient(PipeSources)

\* E.concat(B1, ..., Bk).toArray()
DoConcat ==
    /\ E.op = "fromArray"
    /\ \E args \in UNION {[1 .. k -> PairSources] : k \in 0 .. MaxArgs} :
          Called("concat", [sequences |-> args], toArray(concat(E, args)) @@ [log |-> <<>>])

NextPipe == DoToArray \/ DoForEach \/ DoConcat

SpecPipe == InitPipe /\ [][NextPipe]_vars

\* the elements of seq from position k on that predicate accepts, each tested with its
\* zero-based position as index
RECURSIVE Filtered(_, _, _)
Filtered(seq, predicate, k) ==
    IF k > Len(seq) THEN <<>>
    ELSE (IF CallPredicate(predicate, seq[k], k - 1).val THEN <<seq[k]>> ELSE <<>>)
         \o Filtered(seq, predicate, k + 1)

ToArrayOf(op) == res # NoResult /\ res.op = "toArray" /\ E.op = op

\* C21: S.where(P).toArray() is S.toArray() with the elements P rejects left out, in the
\* same order, and P has been called exactly once for each element of S, in order, with
\* that element and its zero-based position in S (P and S raise no error).
C21_WhereFilters ==
    (ToArrayOf("where") /\ E \in WherePipes) =>
        /\ res.err = NoErr
        /\ res.value = Filtered(ElementsOf(E.parent), E.selector, 1)
        /\ res.enumerators[1].log =
              [k \in 1 .. Len(ElementsOf(E.parent)) |-> <<ElementsOf(E.parent)[k], k - 1>>]

\* a predicate of the index kept the first and the last of three elements and rejected
\* the one between them
C21_Witness ==
    /\ ToArrayOf("where") /\ E.selector.byIndex
    /\ Len(ElementsOf(E.parent)) = 3
    /\ res.value = <<ElementsOf(E.parent)[1], ElementsOf(E.parent)[3]>>
    /\ Len(res.enumerators[1].log) = 3

\* the elements of seq that equal no earlier element of seq under comparer
FirstOccurrences(seq, comparer) ==
    LET keep == {k \in 1 .. Len(seq) :
                    \A j \in 1 .. k - 1 : ~CallEquality(comparer, seq[j], seq[k])}
        RECURSIVE from(_)
        from(k) == IF k > Len(seq) THEN <<>>
                   ELSE (IF k \in keep THEN <<seq[k]>> ELSE <<>>) \o from(k + 1)
    IN  from(1)

\* C22: S.distinct(comparer).toArray() holds the first occurrence of each equivalence
\* class of S and nothing else, in the order of these occurrences in S, and no two of its
\* elements are equal under the comparer.
C22_DistinctKeepsFirstOccurrences ==
    ToArrayOf("distinct") =>
        /\ res.err = NoErr
        /\ res.value = FirstOccurrences(ElementsOf(E.parent), E.comparer)
        /\ \A p, q \in 1 .. Len(res.value) :
              p # q => ~CallEquality(E.comparer, res.value[p], res.value[q])
        /\ \A k \in 1 .. Len(ElementsOf(E.parent)) :
              \E p \in 1 .. Len(res.value) :
                  CallEquality(E.comparer, res.value[p], ElementsOf(E.parent)[k])

\* three elements, the third of which repeats the first after another one, under a
\* comparer that is not identity of values
C22_Witness ==
    /\ ToArrayOf("distinct") /\ E.comparer = sameParity
    /\ Len(ElementsOf(E.parent)) = 3
    /\ ElementsOf(E.parent)[1] # ElementsOf(E.parent)[3]
    /\ res.value = <<ElementsOf(E.parent)[1], ElementsOf(E.parent)[2]>>

\* C23: first.except(second, comparer).toArray() is the set difference of first by
\* second: each of its elements is an element of first that equals no element of second
\* under the comparer, every such value of first is in it, and no value is in it twice.
C23_ExceptIsSetDifference ==
    ToArrayOf("except") =>
        LET seq1 == ElementsOf(E.parent)
            seq2 == ElementsOf(E.second)
            eq(a, b) == CallEquality(E.comparer, a, b)
        IN  /\ res.err = NoErr
            /\ \A p \in 1 .. Len(res.value) :
                  /\ \E k \in 1 .. Len(seq1) : seq1[k] = res.value[p]
                  /\ \A j \in 1 .. Len(seq2) : ~eq(res.value[p], seq2[j])
            /\ \A k \in 1 .. Len(seq1) :
                  (\A j \in 1 .. Len(seq2) : ~eq(seq1[k], seq2[j]))
                      => \E p \in 1 .. Len(res.value) : eq(res.value[p], seq1[k])
            /\ \A p, q \in 1 .. Len(res.value) : p # q => ~eq(res.value[p], res.value[q])

\* the number of positions of seq that hold v
Occurrences(seq, v) == Cardinality({k \in 1 .. Len(seq) : seq[k] = v})

\* C24: under the default equality comparer first.intersect(second).toArray() holds each
\* value v exactly min(occurrences of v in first, occurrences of v in second) times: only
\* values that are in both sequences, and none more often than it is in first.
C24_IntersectMultiplicity ==
    (ToArrayOf("intersect") /\ E.comparer = defaultEqualityComparer) =>
        LET seq1 == ElementsOf(E.parent)
            seq2 == ElementsOf(E.second)
            least(a, b) == IF a < b THEN a ELSE b
        IN  /\ res.err = NoErr
            /\ \A v \in {(seq1 \o seq2 \o res.value)[k] :
                            k \in 1 .. Len(seq1) + Len(seq2) + Len(res.value)} :
                  Occurrences(res.value, v) =
                      least(Occurrences(seq1, v), Occurrences(seq2, v))

\* a value that is twice in second and once in first came out once, a value that is twice
\* in first and once in second came out once, too
C24_Witness ==
    /\ ToArrayOf("intersect") /\ E.comparer = defaultEqualityComparer
    /\ \E v, w \in Values :
          /\ v # w
          /\ Occurrences(ElementsOf(E.parent), v) = 1 /\ Occurrences(ElementsOf(E.second), v) = 2
          /\ Occurrences(ElementsOf(E.parent), w) = 2 /\ Occurrences(ElementsOf(E.second), w) = 1
          /\ Occurrences(res.value, v) = 1 /\ Occurrences(res.value, w) = 1

\* the elements of the sequences of seqs, one sequence after the other
RECURSIVE Flattened(_)
Flattened(seqs) ==
    IF seqs = <<>> THEN <<>> ELSE ElementsOf(Head(seqs)) \o Flattened(Tail(seqs))

\* C25: A.concat(B1, ..., Bk).toArray(), k >= 0, is the elements of A in order followed
\* by those of B1, ..., Bk, each in order; empty sequences contribute nothing.
C25_ConcatAppends ==
    (res # NoResult /\ res.op = "concat") =>
        /\ res.err = NoErr
        /\ res.value = ElementsOf(E) \o Flattened(res.args.sequences)

\* two elements of A were followed by those of B2, after an empty B1
C25_Witness ==
    /\ res # NoResult /\ res.op = "concat"
    /\ Len(E.array) = 2 /\ E.array[1] # E.array[2]
    /\ Len(res.args.sequences) = 2
    /\ res.args.sequences[1].array = <<>>
    /\ Len(res.args.sequences[2].array) = 2
    /\ res.args.sequences[2].array[1] # res.args.sequences[2].array[2]
    /\ res.value = E.array \o res.args.sequences[2].array

\* what S.defaultIfEmpty(d) is to yield
DefaultIfEmptyOf(a) ==
    IF ElementsOf(a.parent) = <<>> THEN <<a.defaultValue>> ELSE ElementsOf(a.parent)

\* C26: an enumerator of S.defaultIfEmpty(d) yields exactly d and then reports exhaustion
\* when S is empty, and exactly the elements of S in order, never d as an extra element,
\* when S is not: after n calls of moveNext it has yielded the first n of these elements,
\* and every further call has reported exhaustion.
C26_DefaultIfEmpty ==
    (E.op = "defaultIfEmpty" /\ en[1] # Null /\ en[1].disposed = 0) =>
        /\ IsPrefix(out[1], DefaultIfEmptyOf(E))
        /\ Len(out[1]) = IF ncalls[1] < Len(DefaultIfEmptyOf(E))
                          THEN ncalls[1] ELSE Len(DefaultIfEmptyOf(E))
        /\ exhausted[1] = ncalls[1] - Len(out[1])

\* an empty source gave the default and then exhaustion
C26_Witness ==
    /\ E.op = "defaultIfEmpty" /\ ElementsOf(E.parent) = <<>>
    /\ en[1] # Null /\ out[1] = <<E.defaultValue>> /\ exhausted[1] > 0

\* f(L[1], R[1]), ..., f(L[n], R[n]) for the shorter length n
Zipped(a) ==
    [k \in 1 .. (IF Len(ElementsOf(a.parent)) < Len(ElementsOf(a.right))
                 THEN Len(ElementsOf(a.parent)) ELSE Len(ElementsOf(a.right))) |->
        CallSelector2(a.selector, ElementsOf(a.parent)[k], ElementsOf(a.right)[k]).val]

\* C27: an enumerator of L.zip(R, f) yields exactly min(|L|, |R|) elements, the k-th
\* being f(L[k], R[k]), and reports exhaustion on the call after the last of them, that
\* is as soon as either side is exhausted, and on every call after that.
C27_ZipShorterWins ==
    (E.op = "zip" /\ en[1] # Null /\ en[1].disposed = 0) =>
        /\ Len(out[1]) = IF ncalls[1] < Len(Zipped(E)) THEN ncalls[1] ELSE Len(Zipped(E))
        /\ IsPrefix(out[1], Zipped(E))
        /\ exhausted[1] = ncalls[1] - Len(out[1])
        /\ last.err = NoErr

\* one pair was combined and the longer left side did not prolong the enumeration
C27_Witness ==
    /\ E.op = "zip" /\ en[1] # Null
    /\ Len(ElementsOf(E.parent)) = 2 /\ Len(ElementsOf(E.right)) = 1
    /\ out[1] = Zipped(E) /\ Len(out[1]) = 1 /\ exhausted[1] = 2

\* C28: driving L.zip(R, f) with toArray() and a non-throwing f raises no error, also
\* for an empty L and an R that is the result of select, where, skip or take.
C28_ZipRaisesNoError ==
    (ToArrayOf("zip") /\ E.right \in LazyRights) => res.err = NoErr

\* C29: once a selectMany or union enumerator has been disposed, after any number of
\* moveNext calls, every enumerator it obtained (outer, inner, first, second) has been
\* disposed exactly once; none is ever disposed twice, and of the inner enumerators
\* selectMany has obtained at most the current one is undisposed at any time.
C29_DisposeReleasesAll ==
    (E.op \in {"selectMany", "union"} /\ en[1] # Null) =>
        /\ \A k \in DOMAIN Obtained(en[1]) : Obtained(en[1])[k].disposed <= 1
        /\ \A k \in DOMAIN en[1].released : en[1].released[k].disposed = 1
        /\ en[1].disposed = 1 =>
              /\ last.err = NoErr
              /\ \A k \in DOMAIN Obtained(en[1]) : Obtained(en[1])[k].disposed = 1

\* selectMany was disposed in the middle of its second inner sequence
C29_Witness ==
    /\ E.op = "selectMany" /\ en[1] # Null /\ en[1].disposed = 1
    /\ exhausted[1] = 0
    /\ en[1].outerEnumerator # Null /\ en[1].innerEnumerator # Null
    /\ Len(en[1].released) = 1

\* f, p or the forEach action throws on some element of source.select(f).where(p)
SomeCallbackThrows ==
    \E k \in 1 .. Len(E.parent.parent.array) :
        \/ E.parent.parent.array[k] \in E.parent.selector.throws
        \/ ApplyFn(E.parent.selector.fn, E.parent.parent.array[k], k - 1) \in E.selector.throws
        \/ /\ res.op = "forEach"
           /\ ApplyFn(E.parent.selector.fn, E.parent.parent.array[k], k - 1)
                  \in E.selector.holds \cap res.args.action.throws

\* C30: when source.select(f).where(p) is driven by toArray or forEach and f, p or the
\* forEach action throws on some element, the caller receives the callback's error, and
\* by then dispose has been called exactly once on the source's own enumerator.
C30_CallbackErrorAfterDispose ==
    (res # NoResult /\ res.op \in {"toArray", "forEach"}
        /\ E \in SelectWherePipes /\ SomeCallbackThrows) =>
        /\ res.err = CallbackError
        /\ Len(res.enumerators) = 1
        /\ res.enumerators[1].disposed = 1
        /\ res.enumerators[1].enumerator.disposed = 1
        /\ res.enumerators[1].enumerator.enumerator.disposed = 1

\* the forEach action threw on the second element that passed f and p
C30_Witness ==
    /\ res # NoResult /\ res.op = "forEach" /\ E \in SelectWherePipes
    /\ E.parent.selector.throws = {} /\ E.selector.throws = {}
    /\ res.err = CallbackError
    /\ res.enumerators[1].enumerator.enumerator.index = 2
    /\ res.enumerators[1].enumerator.enumerator.disposed = 1

----------------------------------------------------------------------------
(* groupBy over arrays: the client enumerates the groups step by step or   *)
(* with toArray                                                            *)

\* keys that are numbers, bucketed by the default serializer or by parity
NumberKeyGroups ==
    {groupBy(enumerableFromArray(a), [fn |-> g, throws |-> {}], es, rs, ser) :
        a \in PipeArrays, g \in {"mod2", "identity"},
        es \in {nullFn, [fn |-> "succ", throws |-> {}]},
        rs \in {nullFn, [fn |-> "pair", throws |-> {}]},
        ser \in {nullFn, [fn |-> "parity", throws |-> {}]}}
\* keys that are strings, bucketed as they are or by their initial
WordKeyGroups ==
    {groupBy(enumerableFromArray(a), [fn |-> "word", throws |-> {}], nullFn, rs, ser) :
        a \in PipeArrays,
        rs \in {nullFn, [fn |-> "pair", throws |-> {}]},
        ser \in {[fn |-> "asIs", throws |-> {}], [fn |-> "initial", throws |-> {}]}}
GroupPipes == NumberKeyGroups \cup WordKeyGroups

InitGroup == InitClient(GroupPipes)

NextGroup == DoToArray \/ DoGetEnumerator(1) \/ DoMoveNext(1) \/ DoDispose(1)

SpecGroup == InitGroup /\ [][NextGroup]_vars

\* keySelector(x) and keySerializer(keySelector(x)) for an element x of the source of a
KeyValue(a, x) == CallSelector(a.keySelector, x, undefined).val
SerializedKey(a, x) == CallSerializer(a.keySerializer, KeyValue(a, x))

\* the distinct serialized keys of the source of a, in order of first occurrence
GroupKeys(a) ==
    FirstOccurrences([k \in 1 .. Len(a.parent.array) |-> SerializedKey(a, a.parent.array[k])],
                     defaultEqualityComparer)

\* the element-selected elements from position k on whose serialized key is key
RECURSIVE Members(_, _, _)
Members(a, key, k) ==
    IF k > Len(a.parent.array) THEN <<>>
    ELSE (IF SerializedKey(a, a.parent.array[k]) = key
          THEN <<CallSelector(a.elementSelector, a.parent.array[k], undefined).val>>
          ELSE <<>>) \o Members(a, key, k + 1)

ExpectedGroups(a) == [j \in 1 .. Len(GroupKeys(a)) |-> Members(a, GroupKeys(a)[j], 1)]

\* the elements of the groups yielded: a group is an Enumerable over its bucket, handed
\* over as it is or as the second argument of resultSelector
GroupsYielded(a, groups) ==
    [j \in 1 .. Len(groups) |->
        IF a.resultSelector = nullFn THEN groups[j].array ELSE groups[j].values.array]

\* C31: S.groupBy(keySelector) yields one group per distinct serialized key, in order of
\* the key's first occurrence in S; each group holds exactly the element-selected
\* elements of S with that key, in source order, so that every element is in exactly one
\* group; and S has been drained and disposed of before the first group is yielded.
C31_GroupByPartitions ==
    E.op = "groupBy" =>
        /\ (res # NoResult /\ res.op = "toArray") =>
              /\ res.err = NoErr
              /\ GroupsYielded(E, res.value) = ExpectedGroups(E)
        /\ en[1] # Null =>
              /\ en[1].parentEnumerator.disposed = 1
              /\ en[1].parentEnumerator.calls = Len(E.parent.array) + 1
              /\ IsPrefix(GroupsYielded(E, out[1]), ExpectedGroups(E))
              /\ exhausted[1] > 0 => GroupsYielded(E, out[1]) = ExpectedGroups(E)

\* the position in the source of the first element of the j-th group
FirstMember(a, j) ==
    CHOOSE k \in 1 .. Len(a.parent.array) :
        /\ SerializedKey(a, a.parent.array[k]) = GroupKeys(a)[j]
        /\ \A i \in 1 .. k - 1 : SerializedKey(a, a.parent.array[i]) # GroupKeys(a)[j]

\* C34: the key exposed for a group (its key property, or the first argument of
\* resultSelector) is the value keySelector returned for the group's elements, not the
\* string keySerializer made of it.  ToString tells a number from the string of its
\* digits.
C34_GroupKeyIsKeySelectorValue ==
    (E.op = "groupBy" /\ res # NoResult /\ res.op = "toArray" /\ res.err = NoErr) =>
        \A j \in 1 .. Len(res.value) :
            ToString(res.value[j].key)
                = ToString(KeyValue(E, E.parent.array[FirstMember(E, j)]))

\* seq without its longest leading run of elements that satisfy predicate
RECURSIVE DropLeading(_, _)
DropLeading(seq, predicate) ==
    IF seq # <<>> /\ Head(seq) \in predicate.holds
    THEN DropLeading(Tail(seq), predicate) ELSE seq

\* C32: S.skipWhile(P).toArray() is S.toArray() without its longest leading run of
\* elements that satisfy P: the first element that fails P and every later element are
\* yielded, later elements that satisfy P included.
C32_SkipWhileDropsLeadingRun ==
    (ToArrayOf("skipWhile") /\ E \in SkipWhilePipes) =>
        /\ res.err = NoErr
        /\ res.value = DropLeading(ElementsOf(E.parent), E.selector)

\* C33: for every element count n >= 0 and every comparer that is a consistent total
\* preorder on the keys, EnumerableSorter.sort comes to an end and returns an array that
\* holds each index 0 .. n-1 exactly once, with compareKeys(map[k], map[k+1]) < 0 for
\* every adjacent pair, and compareKeys was never handed an index outside 0 .. n-1.
C33_SortTerminatesInRange ==
    (E.op = "ordered" /\ en[1] # Null) =>
        /\ en[1].comparisons.steps < MaxSortSteps
        /\ IsPermutation(en[1].map, en[1].length)
        /\ \A k \in 1 .. en[1].length - 1 :
              compareKeys(en[1].sorter, en[1].map[k], en[1].map[k + 1]) < 0
        /\ en[1].comparisons.compared \subseteq 0 .. en[1].length - 1

\* three elements were put into another order, over several partitions
C33_Witness ==
    /\ E.op = "ordered" /\ en[1] # Null
    /\ en[1].length = 3 /\ en[1].map = <<2, 1, 0>>
    /\ en[1].comparisons.steps > 3
    /\ en[1].comparisons.compared = {0, 1, 2}

====
